---- MODULE Spec2Model ----
(***************************************************************************)
(* AutoAnalytiX: the fuel-theft pipeline of Module 4A                      *)
(*   TimeSynchronizer.create_10_minute_synchronized_windows                *)
(*   MPGCalculator.calculate_real_time_mpg                                 *)
(*   TheftDetector.detect_theft_events_enhanced                            *)
(*   FUEL_THEFT_DETECTION_MODULE.execute_theft_detection                   *)
(* and the idle analysis of Module 4B                                      *)
(*   IdleDetector.identify_idle_periods                                    *)
(*   CostCalculator.calculate_idle_costs                                   *)
(*   UtilizationMetrics.calculate_utilization_metrics                      *)
(*   MathUtils.calculate_idle_cost, calculate_utilization_percentage       *)
(* Timestamps are whole minutes.  Sensor values are exact rationals; a     *)
(* value also records the float specials the pandas/numpy code relies on   *)
(* (NaN, +inf, -inf) and Python's None.                                    *)
(***************************************************************************)
EXTENDS Integers, Sequences, FiniteSets, TLC

VARIABLES
    pc,                     \* position of the running call
    fuel_data,              \* input series: fuel readings
    odometer_data,          \* input series: odometer readings
    speed_data,             \* input series: speed readings
    start_time,             \* min over all timestamps
    end_time,               \* max over all timestamps
    fuel_sorted,            \* the three series after sort_values
    odometer_sorted,
    speed_sorted,
    current_time,           \* start of the window examined next
    fuel_idx,               \* per-series cursors
    odometer_idx,
    speed_idx,
    window_data,            \* the window examined last (returned or dropped)
    examined,               \* every window examined so far, with its bounds
    synchronized_windows,   \* the retained windows
    sync_data,              \* the DataFrame handed to the MPG calculator
    tank_capacity,
    rated_mpg,
    mpg_data,               \* the DataFrame returned by calculate_real_time_mpg
    theft_events,           \* the list returned by detect_theft_events_enhanced
    raised,                 \* an exception left the call
    cleaned_data,           \* the fleet: vehicle index -> meters
    vehicle_metadata,       \* vehicle specifications (rows with an id)
    vidx,                   \* number of vehicles the fleet loop has taken
    fleet_theft_events,     \* self.theft_events: vehicle id -> events
    synchronized_store,     \* self.synchronized_data: ids with stored windows
    theft_summary,
    outcome,                \* per vehicle: what the loop body did with it
    idle_periods,           \* the list returned by identify_idle_periods
    idle_analysis,          \* the dict returned by calculate_idle_costs
    utilization_metrics,    \* the dict returned by calculate_utilization_metrics
    idle_cost,              \* the dict returned by MathUtils.calculate_idle_cost
    run,                    \* which call of execute_theft_detection on the object
    first_run,              \* what the first call left and returned
    vehicle_meter_data,     \* the fleet of the quality inspection: index -> meters
    qidx,                   \* number of vehicles the inspection loop has taken
    quality_issues,         \* self.quality_issues: vehicle id -> sensor -> analysis
    inspection_summary,
    utilization_analysis,   \* self.utilization_analysis[vehicle_id]
    export_result           \* what export_utilization_data returned and wrote

vars == << pc, fuel_data, odometer_data, speed_data, start_time, end_time,
           fuel_sorted, odometer_sorted, speed_sorted, current_time,
           fuel_idx, odometer_idx, speed_idx, window_data, examined,
           synchronized_windows, sync_data, tank_capacity, rated_mpg,
           mpg_data, theft_events, raised, cleaned_data, vehicle_metadata,
           vidx, fleet_theft_events, synchronized_store, theft_summary,
           outcome, idle_periods, idle_analysis, utilization_metrics,
           idle_cost, run, first_run, vehicle_meter_data, qidx,
           quality_issues, inspection_summary, utilization_analysis,
           export_result >>

(***************************************************************************)
(* Bounds of the model.                                                    *)
(***************************************************************************)
MaxLen == 2          \* readings in a fuel or odometer series
MaxWindows == 2      \* synchronized windows handed to the MPG calculator
MaxVehicles == 2     \* vehicles in the fleet

(***************************************************************************)
(* Program constants.                                                      *)
(***************************************************************************)
WindowMinutes == 10
HalfWindowMinutes == 5
SensorErrorMpg == 50
TheftInvestigationMpg == 2
FuelPricePerGallon == 5

(***************************************************************************)
(* Numbers.  [k, n, d]: k = "num" is the rational n/d in lowest terms with *)
(* d > 0; the other kinds carry n = 0, d = 1.                              *)
(***************************************************************************)
Abs(x) == IF x < 0 THEN -x ELSE x

RECURSIVE GCD(_, _)
GCD(a, b) == IF b = 0 THEN a ELSE GCD(b, a % b)

Special(kind) == [k |-> kind, n |-> 0, d |-> 1]
NaN == Special("nan")
None == Special("none")
PosInf == Special("inf")
NegInf == Special("ninf")

Num(n, d) ==
    LET g == GCD(Abs(n), Abs(d))
        s == IF d < 0 THEN -1 ELSE 1
    IN  [k |-> "num", n |-> (s * n) \div g, d |-> (s * d) \div g]

Int2Num(i) == Num(i, 1)

IsNum(x) == x.k = "num"
\* pandas isna(): NaN and None both count as missing
IsNa(x) == x.k \in {"nan", "none"}

\* float subtraction as Series.diff() performs it; a missing operand gives NaN
FSub(a, b) ==
    IF IsNum(a) /\ IsNum(b) THEN Num(a.n * b.d - b.n * a.d, a.d * b.d) ELSE NaN

FMul(a, b) ==
    IF IsNum(a) /\ IsNum(b) THEN Num(a.n * b.n, a.d * b.d) ELSE NaN

\* numpy float division: x/0 is +-inf, 0/0 is NaN, nothing raises
FDiv(a, b) ==
    IF ~(IsNum(a) /\ IsNum(b)) THEN NaN
    ELSE IF b.n # 0 THEN Num(a.n * b.d, a.d * b.n)
    ELSE IF a.n > 0 THEN PosInf
    ELSE IF a.n < 0 THEN NegInf
    ELSE NaN

\* float comparisons: any comparison with NaN is False
FGt(a, b) ==
    IF IsNum(a) /\ IsNum(b) THEN a.n * b.d > b.n * a.d
    ELSE IF a.k = "nan" \/ b.k = "nan" THEN FALSE
    ELSE (a.k = "inf" /\ b.k # "inf") \/ (b.k = "ninf" /\ a.k # "ninf")

FLt(a, b) == FGt(b, a)
FLe(a, b) == IF a.k = "nan" \/ b.k = "nan" THEN FALSE ELSE ~FGt(a, b)

(***************************************************************************)
(* Series: a DataFrame with a TIMESTAMP column and one value column, as a  *)
(* sequence of rows [TIMESTAMP, value].                                    *)
(***************************************************************************)
Reading(t, v) == [TIMESTAMP |-> t, value |-> v]

RECURSIVE InsertSorted(_, _)
InsertSorted(row, s) ==
    IF s = << >> THEN << row >>
    ELSE IF row.TIMESTAMP < Head(s).TIMESTAMP THEN << row >> \o s
    ELSE << Head(s) >> \o InsertSorted(row, Tail(s))

\* DataFrame.sort_values('TIMESTAMP').reset_index(drop=True)
RECURSIVE SortValues(_)
SortValues(s) ==
    IF s = << >> THEN << >>
    ELSE InsertSorted(s[Len(s)], SortValues(SubSeq(s, 1, Len(s) - 1)))

Timestamps(s) == {s[i].TIMESTAMP : i \in 1..Len(s)}

SetMin(S) == CHOOSE x \in S : \A y \in S : x <= y
SetMax(S) == CHOOSE x \in S : \A y \in S : x >= y

RECURSIVE SumSeq(_)
SumSeq(s) == IF s = << >> THEN 0 ELSE Head(s) + SumSeq(Tail(s))

\* np.mean of a non-empty list of readings
Mean(values) == Num(SumSeq(values), Len(values))

(***************************************************************************)
(* TimeSynchronizer.create_10_minute_synchronized_windows                  *)
(***************************************************************************)
RECURSIVE AdvanceIdxPastStart(_, _, _)
AdvanceIdxPastStart(sorted, idx, window_start) ==
    IF idx < Len(sorted) /\ sorted[idx + 1].TIMESTAMP <= window_start
    THEN AdvanceIdxPastStart(sorted, idx + 1, window_start)
    ELSE idx

\* "Advance index to window start": the first inner while loop
RECURSIVE AdvanceIdx(_, _, _)
AdvanceIdx(sorted, idx, window_start) ==
    IF idx < Len(sorted) /\ sorted[idx + 1].TIMESTAMP < window_start
    THEN AdvanceIdx(sorted, idx + 1, window_start)
    ELSE idx

RECURSIVE CollectValuesInclusive(_, _, _)
CollectValuesInclusive(sorted, temp_idx, window_end) ==
    IF temp_idx < Len(sorted) /\ sorted[temp_idx + 1].TIMESTAMP <= window_end
    THEN << sorted[temp_idx + 1].value >>
         \o CollectValuesInclusive(sorted, temp_idx + 1, window_end)
    ELSE << >>

\* "Collect values in window": the second inner while loop, from temp_idx
RECURSIVE CollectValues(_, _, _)
CollectValues(sorted, temp_idx, window_end) ==
    IF temp_idx < Len(sorted) /\ sorted[temp_idx + 1].TIMESTAMP < window_end
    THEN << sorted[temp_idx + 1].value >>
         \o CollectValues(sorted, temp_idx + 1, window_end)
    ELSE << >>

SensorInWindowRescanning(sorted, idx, window_start, window_end) ==
    IF sorted # << >>
    THEN LET i == AdvanceIdx(sorted, 0, window_start)
         IN  [idx |-> 0, values |-> CollectValues(sorted, i, window_end)]
    ELSE [idx |-> idx, values |-> << >>]

\* one sensor's block of the loop body: the advanced cursor and the values
SensorInWindow(sorted, idx, window_start, window_end) ==
    IF sorted # << >>
    THEN LET i == AdvanceIdx(sorted, idx, window_start)
         IN  [idx |-> i, values |-> CollectValues(sorted, i, window_end)]
    ELSE [idx |-> idx, values |-> << >>]

MeanOrNone(values) == IF values # << >> THEN Mean(values) ELSE None

\* window_end = current_time + timedelta(minutes=10)
WindowEnd(t) == t + WindowMinutes

WindowCenterAtStart(t) == t
\* window_center = current_time + timedelta(minutes=5)
WindowCenter(t) == t + HalfWindowMinutes

RetainedWithEither(wd) == wd.fuel_level # None \/ wd.odometer # None
\* "Only include windows with at least fuel and odometer data"
Retained(wd) == wd.fuel_level # None /\ wd.odometer # None

\* one iteration of "while current_time < end_time"
SyncIteration(st, fs, os, ss) ==
    LET window_start == st.current_time
        window_end == WindowEnd(st.current_time)
        window_center == WindowCenter(st.current_time)
        f == SensorInWindow(fs, st.fuel_idx, window_start, window_end)
        o == SensorInWindow(os, st.odometer_idx, window_start, window_end)
        s == SensorInWindow(ss, st.speed_idx, window_start, window_end)
        wd == [timestamp |-> window_center,
               fuel_level |-> MeanOrNone(f.values),
               odometer |-> MeanOrNone(o.values),
               speed |-> MeanOrNone(s.values),
               reading_counts |-> [fuel |-> Len(f.values),
                                   odometer |-> Len(o.values),
                                   speed |-> Len(s.values)]]
    IN  [current_time |-> window_end,
         fuel_idx |-> f.idx, odometer_idx |-> o.idx, speed_idx |-> s.idx,
         window_data |-> wd,
         synchronized_windows |->
             IF Retained(wd)
             THEN Append(st.synchronized_windows, wd)
             ELSE st.synchronized_windows]

RECURSIVE InsertByTimestampDescending(_, _)
InsertByTimestampDescending(row, s) ==
    IF s = << >> THEN << row >>
    ELSE IF row.timestamp > Head(s).timestamp THEN << row >> \o s
    ELSE << Head(s) >> \o InsertByTimestampDescending(row, Tail(s))

\* DataFrame rows ordered by 'timestamp' (sort_values + reset_index)
RECURSIVE InsertByTimestamp(_, _)
InsertByTimestamp(row, s) ==
    IF s = << >> THEN << row >>
    ELSE IF row.timestamp < Head(s).timestamp THEN << row >> \o s
    ELSE << Head(s) >> \o InsertByTimestamp(row, Tail(s))

RECURSIVE SortByTimestamp(_)
SortByTimestamp(s) ==
    IF s = << >> THEN << >>
    ELSE InsertByTimestamp(s[Len(s)], SortByTimestamp(SubSeq(s, 1, Len(s) - 1)))

WindowColumns == {"timestamp", "fuel_level", "odometer", "speed", "reading_counts"}

\* pd.DataFrame(): no columns, no rows
EmptyFrame == [columns |-> {}, rows |-> << >>]
FrameEmpty(df) == df.rows = << >>

\* "Convert to DataFrame and export": the tail of the function
SyncResult(windows) ==
    IF windows # << >>
    THEN [columns |-> WindowColumns, rows |-> SortByTimestamp(windows)]
    ELSE EmptyFrame

AllTimestamps(fuel, odo, speed) ==
    Timestamps(fuel) \cup Timestamps(odo) \cup Timestamps(speed)

RECURSIVE SyncLoop(_, _, _, _, _)
SyncLoop(st, fs, os, ss, endt) ==
    IF st.current_time < endt
    THEN SyncLoop(SyncIteration(st, fs, os, ss), fs, os, ss, endt)
    ELSE st

SyncStart(startt) ==
    [current_time |-> startt, fuel_idx |-> 0, odometer_idx |-> 0,
     speed_idx |-> 0, window_data |-> None, synchronized_windows |-> << >>]

\* the whole call, as execute_theft_detection uses it
CreateSynchronizedWindows(fuel, odo, speed) ==
    LET ts == AllTimestamps(fuel, odo, speed)
    IN  IF ts = {} THEN EmptyFrame
        ELSE SyncResult(SyncLoop(SyncStart(SetMin(ts)), SortValues(fuel),
                                 SortValues(odo), SortValues(speed),
                                 SetMax(ts)).synchronized_windows)

(***************************************************************************)
(* MPGCalculator.calculate_real_time_mpg                                   *)
(***************************************************************************)
MpgColumns ==
    WindowColumns \cup {"distance_delta", "fuel_delta", "fuel_gallons_consumed",
                        "time_delta_hours", "calculated_mpg", "mpg_validation"}

DiffReversed(rows, i, col) ==
    IF i = 1 THEN NaN
    ELSE IF col = "odometer" THEN FSub(rows[i - 1].odometer, rows[i].odometer)
    ELSE IF col = "fuel_level" THEN FSub(rows[i - 1].fuel_level, rows[i].fuel_level)
    ELSE Num(rows[i - 1].timestamp - rows[i].timestamp, 1)

\* Series.diff(): row i minus row i-1, NaN in the first row
Diff(rows, i, col) ==
    IF i = 1 THEN NaN
    ELSE IF col = "odometer" THEN FSub(rows[i].odometer, rows[i - 1].odometer)
    ELSE IF col = "fuel_level" THEN FSub(rows[i].fuel_level, rows[i - 1].fuel_level)
    ELSE Num(rows[i].timestamp - rows[i - 1].timestamp, 1)

\* the quotient array np.where receives: computed for every row, whatever the mask
MpgQuotient(distance_delta, fuel_gallons_consumed) ==
    FDiv(distance_delta, fuel_gallons_consumed)

CalculatedMpgZeroWhenIdle(distance_delta, fuel_gallons_consumed) ==
    IF FGt(fuel_gallons_consumed, Int2Num(0))
    THEN MpgQuotient(distance_delta, fuel_gallons_consumed)
    ELSE Int2Num(0)

\* np.where(fuel_gallons_consumed > 0, distance_delta / fuel_gallons_consumed, nan)
CalculatedMpg(distance_delta, fuel_gallons_consumed) ==
    IF FGt(fuel_gallons_consumed, Int2Num(0))
    THEN MpgQuotient(distance_delta, fuel_gallons_consumed)
    ELSE NaN

MpgValidationInclusive(calculated_mpg) ==
    IF IsNa(calculated_mpg) THEN "NO_FUEL_CONSUMPTION"
    ELSE IF ~FLt(calculated_mpg, Int2Num(SensorErrorMpg)) THEN "FUEL_SENSOR_ERROR"
    ELSE IF ~FGt(calculated_mpg, Int2Num(TheftInvestigationMpg))
         THEN "INVESTIGATE_POTENTIAL_THEFT"
    ELSE "NORMAL_OPERATION"

\* the nested np.where of "physics-based validation thresholds"
MpgValidation(calculated_mpg) ==
    IF IsNa(calculated_mpg) THEN "NO_FUEL_CONSUMPTION"
    ELSE IF FGt(calculated_mpg, Int2Num(SensorErrorMpg)) THEN "FUEL_SENSOR_ERROR"
    ELSE IF FLt(calculated_mpg, Int2Num(TheftInvestigationMpg))
         THEN "INVESTIGATE_POTENTIAL_THEFT"
    ELSE "NORMAL_OPERATION"

MpgRow(rows, i, tank) ==
    LET distance_delta == Diff(rows, i, "odometer")
        fuel_delta == FMul(Diff(rows, i, "fuel_level"), Int2Num(-1))
        fuel_gallons_consumed == FMul(FDiv(fuel_delta, Int2Num(100)), tank)
        \* minutes -> seconds -> hours
        time_delta_hours == FDiv(FMul(Diff(rows, i, "timestamp"), Int2Num(60)),
                                 Int2Num(3600))
        calculated_mpg == CalculatedMpg(distance_delta, fuel_gallons_consumed)
    IN  [timestamp |-> rows[i].timestamp,
         fuel_level |-> rows[i].fuel_level,
         odometer |-> rows[i].odometer,
         speed |-> rows[i].speed,
         reading_counts |-> rows[i].reading_counts,
         distance_delta |-> distance_delta,
         fuel_delta |-> fuel_delta,
         fuel_gallons_consumed |-> fuel_gallons_consumed,
         time_delta_hours |-> time_delta_hours,
         calculated_mpg |-> calculated_mpg,
         mpg_validation |-> MpgValidation(calculated_mpg)]

\* an arithmetic error escapes the call when some row's quotient is one
MpgRaises(rows, tank) ==
    \E i \in 1..Len(rows) :
        MpgQuotient(Diff(rows, i, "odometer"),
                    FMul(FDiv(FMul(Diff(rows, i, "fuel_level"), Int2Num(-1)),
                              Int2Num(100)), tank)).k = "error"

\* what "if len(sync_data) < 2" returns
ShortInputResult(sync) == sync

\* same_object: the frame returned is the caller's sync_data itself
\* ("return sync_data"), not a copy of it ("mpg_data = sync_data.copy()")
CalculateRealTimeMpg(sync, tank) ==
    IF Len(sync.rows) < 2
    THEN [raised |-> FALSE, frame |-> ShortInputResult(sync), same_object |-> TRUE]
    ELSE [raised |-> MpgRaises(sync.rows, tank),
          frame |-> [columns |-> MpgColumns,
                     rows |-> [i \in 1..Len(sync.rows) |-> MpgRow(sync.rows, i, tank)]],
          same_object |-> FALSE]

(***************************************************************************)
(* TheftDetector.detect_theft_events_enhanced                              *)
(***************************************************************************)
SuspiciousWhenMoving(row) ==
    /\ row.mpg_validation = "INVESTIGATE_POTENTIAL_THEFT"
    /\ FGt(row.distance_delta, Int2Num(0))

\* mpg_data[mpg_data['mpg_validation'] == 'INVESTIGATE_POTENTIAL_THEFT']
Suspicious(row) == row.mpg_validation = "INVESTIGATE_POTENTIAL_THEFT"

\* "if pd.isna(calculated_mpg) or fuel_gallons_consumed <= 0: continue"
Skipped(row) ==
    IsNa(row.calculated_mpg) \/ FLe(row.fuel_gallons_consumed, Int2Num(0))

\* MathUtils.calculate_fuel_efficiency_ratio: "if rated_mpg <= 0: return 0.0"
CalculateFuelEfficiencyRatio(calculated_mpg, rated) ==
    IF FLe(rated, Int2Num(0)) THEN Int2Num(0) ELSE FDiv(calculated_mpg, rated)

EfficiencyRatioUnguarded(calculated_mpg, rated) ==
    FDiv(calculated_mpg, rated)

\* window['calculated_mpg'] / rated_mpg if rated_mpg > 0 else 0
EfficiencyRatio(calculated_mpg, rated) ==
    IF FGt(rated, Int2Num(0)) THEN FDiv(calculated_mpg, rated) ELSE Int2Num(0)

ThreatLevelCriticalBelowFifth(efficiency_ratio) ==
    IF FLt(efficiency_ratio, Num(2, 10)) THEN "CRITICAL"
    ELSE IF FLt(efficiency_ratio, Num(5, 10)) THEN "HIGH"
    ELSE IF FLt(efficiency_ratio, Num(7, 10)) THEN "MEDIUM"
    ELSE "LOW"

\* the threat_level chain of the detector: < 0.3, < 0.5, < 0.7, else
ThreatLevel(efficiency_ratio) ==
    IF FLt(efficiency_ratio, Num(3, 10)) THEN "CRITICAL"
    ELSE IF FLt(efficiency_ratio, Num(5, 10)) THEN "HIGH"
    ELSE IF FLt(efficiency_ratio, Num(7, 10)) THEN "MEDIUM"
    ELSE "LOW"

PriorityHighIsTwo(efficiency_ratio) ==
    IF FLt(efficiency_ratio, Num(3, 10)) THEN 1
    ELSE IF FLt(efficiency_ratio, Num(5, 10)) THEN 2
    ELSE IF FLt(efficiency_ratio, Num(7, 10)) THEN 2
    ELSE 3

Priority(efficiency_ratio) ==
    IF FLt(efficiency_ratio, Num(3, 10)) THEN 1
    ELSE IF FLt(efficiency_ratio, Num(5, 10)) THEN 1
    ELSE IF FLt(efficiency_ratio, Num(7, 10)) THEN 2
    ELSE 3

EstimatedTheftValue(gallons) == FMul(gallons, Int2Num(FuelPricePerGallon))

TheftEvent(vehicle_id, row, idx, rated) ==
    LET efficiency_ratio == EfficiencyRatio(row.calculated_mpg, rated)
    IN  [vehicle_id |-> vehicle_id,
         timestamp |-> row.timestamp,
         window_index |-> idx,
         fuel_drop_percent |-> row.fuel_delta,
         fuel_gallons_consumed |-> row.fuel_gallons_consumed,
         distance_traveled |-> row.distance_delta,
         calculated_mpg |-> row.calculated_mpg,
         rated_mpg |-> rated,
         efficiency_ratio |-> efficiency_ratio,
         threat_level |-> ThreatLevel(efficiency_ratio),
         investigation_priority |-> Priority(efficiency_ratio),
         estimated_theft_value |-> EstimatedTheftValue(row.fuel_gallons_consumed),
         time_window_hours |-> row.time_delta_hours,
         validation_flag |-> row.mpg_validation]

\* the for loop over suspicious_windows.iterrows(), rows i..Len(rows)
RECURSIVE EventsFrom(_, _, _, _)
EventsFrom(vehicle_id, rows, i, rated) ==
    IF i > Len(rows) THEN << >>
    ELSE IF Suspicious(rows[i]) /\ ~Skipped(rows[i])
         THEN << TheftEvent(vehicle_id, rows[i], i - 1, rated) >>
              \o EventsFrom(vehicle_id, rows, i + 1, rated)
    ELSE EventsFrom(vehicle_id, rows, i + 1, rated)

\* mpg_data['mpg_validation'] raises KeyError when the frame has no such column
DetectTheftEventsEnhanced(vehicle_id, mpg, rated) ==
    IF "mpg_validation" \notin mpg.columns
    THEN [raised |-> TRUE, events |-> << >>]
    ELSE [raised |-> FALSE, events |-> EventsFrom(vehicle_id, mpg.rows, 1, rated)]

(***************************************************************************)
(* Inputs.                                                                 *)
(***************************************************************************)
Times == {0, 5, 10, 25}
SpeedTimes == {0, 25}
FuelValues == {40, 80}
SpeedValues == {30}
\* an odometer reads a mileage that grows with time
OdometerAt(t) == 1000 + 4 * t

IsSorted(s) == \A i \in 1..(Len(s) - 1) : s[i].TIMESTAMP <= s[i + 1].TIMESTAMP

\* series as the ETL stage delivers them: ordered by TIMESTAMP
SeriesOver(readings, maxlen) ==
    {s \in UNION {[1..n -> readings] : n \in 0..maxlen} : IsSorted(s)}

FuelInputs == SeriesOver({Reading(t, v) : t \in Times, v \in FuelValues}, MaxLen)
OdometerInputs == SeriesOver({Reading(t, OdometerAt(t)) : t \in Times}, MaxLen)
SpeedInputs == {<< >>} \cup {<< Reading(t, v) >> : t \in SpeedTimes, v \in SpeedValues}

\* variables a specification does not use keep these values
SyncIdle ==
    /\ fuel_data = << >> /\ odometer_data = << >> /\ speed_data = << >>
    /\ start_time = 0 /\ end_time = 0
    /\ fuel_sorted = << >> /\ odometer_sorted = << >> /\ speed_sorted = << >>
    /\ current_time = 0
    /\ fuel_idx = 0 /\ odometer_idx = 0 /\ speed_idx = 0
    /\ window_data = None
    /\ examined = << >>
    /\ synchronized_windows = << >>

PipelineIdle ==
    /\ tank_capacity = NaN /\ rated_mpg = NaN
    /\ mpg_data = EmptyFrame
    /\ theft_events = << >>

EmptySummary ==
    [vehicles_analyzed |-> 0,
     vehicles_with_theft_events |-> 0,
     total_theft_events |-> 0,
     total_estimated_loss |-> Int2Num(0),
     high_priority_events |-> 0]

FleetIdle ==
    /\ cleaned_data = << >>
    /\ vehicle_metadata = << >>
    /\ vidx = 0
    /\ fleet_theft_events = << >>
    /\ synchronized_store = << >>
    /\ theft_summary = EmptySummary
    /\ outcome = << >>

\* {}: a dict without keys
EmptyDict == [key \in {} |-> 0]

UtilIdle ==
    /\ idle_periods = << >>
    /\ idle_analysis = EmptyDict
    /\ utilization_metrics = EmptyDict
    /\ idle_cost = EmptyDict

RerunIdle ==
    /\ run = 1
    /\ first_run = EmptyDict

EmptyInspectionSummary ==
    [vehicles_processed |-> 0,
     speed_analyses |-> 0,
     odometer_analyses |-> 0,
     fuel_analyses |-> 0,
     quality_issues_detected |-> 0,
     plots_created |-> 0]

QualityIdle ==
    /\ vehicle_meter_data = << >>
    /\ qidx = 0
    /\ quality_issues = EmptyDict
    /\ inspection_summary = EmptyInspectionSummary

qualityVars == << vehicle_meter_data, qidx, quality_issues, inspection_summary >>

ExportIdle ==
    /\ utilization_analysis = EmptyDict
    /\ export_result = EmptyDict

exportVars == << utilization_analysis, export_result >>

syncVars == << fuel_data, odometer_data, speed_data, start_time, end_time,
               fuel_sorted, odometer_sorted, speed_sorted, current_time,
               fuel_idx, odometer_idx, speed_idx, window_data, examined,
               synchronized_windows >>
pipelineVars == << tank_capacity, rated_mpg, mpg_data, theft_events >>
fleetVars == << cleaned_data, vehicle_metadata, vidx, fleet_theft_events,
                synchronized_store, theft_summary, outcome, run, first_run >>
utilVars == << idle_periods, idle_analysis, utilization_metrics, idle_cost >>

(***************************************************************************)
(* SpecSync: one call of create_10_minute_synchronized_windows, one action *)
(* per iteration of its while loop.                                        *)
(***************************************************************************)
InitSync ==
    /\ pc = "sync_call"
    /\ fuel_data \in FuelInputs
    /\ odometer_data \in OdometerInputs
    /\ speed_data \in SpeedInputs
    /\ start_time = 0 /\ end_time = 0
    /\ fuel_sorted = << >> /\ odometer_sorted = << >> /\ speed_sorted = << >>
    /\ current_time = 0
    /\ fuel_idx = 0 /\ odometer_idx = 0 /\ speed_idx = 0
    /\ window_data = None
    /\ examined = << >>
    /\ synchronized_windows = << >>
    /\ sync_data = EmptyFrame
    /\ raised = FALSE
    /\ PipelineIdle
    /\ FleetIdle
    /\ UtilIdle
    /\ RerunIdle
    /\ QualityIdle
    /\ ExportIdle

\* from the call to the first test of the while loop
SyncBegin ==
    /\ pc = "sync_call"
    /\ LET ts == AllTimestamps(fuel_data, odometer_data, speed_data)
       IN  IF ts = {}
           THEN /\ pc' = "sync_done"
                /\ sync_data' = EmptyFrame
                /\ UNCHANGED << start_time, end_time, fuel_sorted,
                                odometer_sorted, speed_sorted, current_time >>
           ELSE /\ pc' = "sync_loop"
                /\ start_time' = SetMin(ts)
                /\ end_time' = SetMax(ts)
                /\ fuel_sorted' = SortValues(fuel_data)
                /\ odometer_sorted' = SortValues(odometer_data)
                /\ speed_sorted' = SortValues(speed_data)
                /\ current_time' = SetMin(ts)
                /\ UNCHANGED sync_data
    /\ UNCHANGED << fuel_data, odometer_data, speed_data, fuel_idx,
                    odometer_idx, speed_idx, window_data, examined,
                    synchronized_windows, raised >>
    /\ UNCHANGED qualityVars
    /\ UNCHANGED exportVars
    /\ UNCHANGED pipelineVars
    /\ UNCHANGED fleetVars
    /\ UNCHANGED utilVars

\* one iteration of the while loop
SyncWindow ==
    /\ pc = "sync_loop"
    /\ current_time < end_time
    /\ LET st == SyncIteration(
                    [current_time |-> current_time, fuel_idx |-> fuel_idx,
                     odometer_idx |-> odometer_idx, speed_idx |-> speed_idx,
                     window_data |-> window_data,
                     synchronized_windows |-> synchronized_windows],
                    fuel_sorted, odometer_sorted, speed_sorted)
       IN  /\ current_time' = st.current_time
           /\ fuel_idx' = st.fuel_idx
           /\ odometer_idx' = st.odometer_idx
           /\ speed_idx' = st.speed_idx
           /\ window_data' = st.window_data
           /\ synchronized_windows' = st.synchronized_windows
           /\ examined' = Append(examined,
                                 [window_start |-> current_time,
                                  window_end |-> st.current_time,
                                  window_data |-> st.window_data,
                                  fuel_idx |-> st.fuel_idx,
                                  odometer_idx |-> st.odometer_idx,
                                  speed_idx |-> st.speed_idx])
    /\ UNCHANGED << pc, fuel_data, odometer_data, speed_data, start_time,
                    end_time, fuel_sorted, odometer_sorted, speed_sorted,
                    sync_data, raised >>
    /\ UNCHANGED qualityVars
    /\ UNCHANGED exportVars
    /\ UNCHANGED pipelineVars
    /\ UNCHANGED fleetVars
    /\ UNCHANGED utilVars

\* the loop has ended: build and return the DataFrame
SyncReturn ==
    /\ pc = "sync_loop"
    /\ ~(current_time < end_time)
    /\ pc' = "sync_done"
    /\ sync_data' = SyncResult(synchronized_windows)
    /\ UNCHANGED syncVars
    /\ UNCHANGED qualityVars
    /\ UNCHANGED exportVars
    /\ UNCHANGED raised
    /\ UNCHANGED pipelineVars
    /\ UNCHANGED fleetVars
    /\ UNCHANGED utilVars

NextSync == SyncBegin \/ SyncWindow \/ SyncReturn

SpecSync == InitSync /\ [][NextSync]_vars

(***************************************************************************)
(* SpecMpg: the windows of one vehicle through calculate_real_time_mpg and *)
(* detect_theft_events_enhanced, as lines 116-127 of the orchestrator call *)
(* them.                                                                   *)
(***************************************************************************)
FuelLevels == {30, 80, 90}
OdometerLevels == {1000, 1004, 1010, 1014}
TankCapacities == {-2, 0, 2, 20}
RatedMpgs == {-2, 0, 2, 4, 7, 10}

\* window i of a vehicle whose every window was retained
WindowAt(i, fuel, odo) ==
    [timestamp |-> WindowMinutes * (i - 1) + HalfWindowMinutes,
     fuel_level |-> Int2Num(fuel),
     odometer |-> Int2Num(odo),
     speed |-> None,
     reading_counts |-> [fuel |-> 1, odometer |-> 1, speed |-> 0]]

WindowRows(n) ==
    {[i \in 1..n |-> WindowAt(i, f[i], o[i])] :
        f \in [1..n -> FuelLevels], o \in [1..n -> OdometerLevels]}

\* what the synchronizer can hand over: no window, or up to MaxWindows
SyncFrames ==
    {SyncResult(rows) : rows \in UNION {WindowRows(n) : n \in 0..MaxWindows}}

InitMpg ==
    /\ pc = "sync_returned"
    /\ sync_data \in SyncFrames
    /\ tank_capacity \in {Int2Num(t) : t \in TankCapacities}
    /\ rated_mpg \in {Int2Num(r) : r \in RatedMpgs}
    /\ mpg_data = EmptyFrame
    /\ theft_events = << >>
    /\ raised = FALSE
    /\ SyncIdle
    /\ FleetIdle
    /\ UtilIdle
    /\ RerunIdle
    /\ QualityIdle
    /\ ExportIdle

\* "if sync_data.empty: ... continue"
NoWindows ==
    /\ pc = "sync_returned"
    /\ FrameEmpty(sync_data)
    /\ pc' = "skipped"
    /\ UNCHANGED << sync_data, raised >>
    /\ UNCHANGED syncVars
    /\ UNCHANGED qualityVars
    /\ UNCHANGED exportVars
    /\ UNCHANGED pipelineVars
    /\ UNCHANGED fleetVars
    /\ UNCHANGED utilVars

\* mpg_data = self.mpg_calculator.calculate_real_time_mpg(...)
CalculateMpg ==
    /\ pc = "sync_returned"
    /\ ~FrameEmpty(sync_data)
    /\ LET r == CalculateRealTimeMpg(sync_data, tank_capacity)
       IN  /\ mpg_data' = r.frame
           /\ raised' = r.raised
           /\ pc' = IF r.raised THEN "mpg_raised" ELSE "mpg_returned"
    /\ UNCHANGED << sync_data, tank_capacity, rated_mpg, theft_events >>
    /\ UNCHANGED syncVars
    /\ UNCHANGED qualityVars
    /\ UNCHANGED exportVars
    /\ UNCHANGED fleetVars
    /\ UNCHANGED utilVars

\* theft_events = self.theft_detector.detect_theft_events_enhanced(...)
DetectTheft ==
    /\ pc = "mpg_returned"
    /\ LET r == DetectTheftEventsEnhanced(1, mpg_data, rated_mpg)
       IN  /\ theft_events' = r.events
           /\ raised' = r.raised
           /\ pc' = IF r.raised THEN "detect_raised" ELSE "detected"
    /\ UNCHANGED << sync_data, tank_capacity, rated_mpg, mpg_data >>
    /\ UNCHANGED syncVars
    /\ UNCHANGED qualityVars
    /\ UNCHANGED exportVars
    /\ UNCHANGED fleetVars
    /\ UNCHANGED utilVars

\* an in-place change of the returned frame: mpg_data.loc[0, 'fuel_level'] = nan
SetFirstFuelLevel(df) ==
    [df EXCEPT !.rows = [@ EXCEPT ![1] = [@ EXCEPT !.fuel_level = NaN]]]

\* the caller changes the frame it got back; an object that is also the
\* caller's sync_data changes with it
ModifyResult ==
    /\ pc = "mpg_returned"
    /\ Len(mpg_data.rows) >= 1
    /\ pc' = "result_modified"
    /\ mpg_data' = SetFirstFuelLevel(mpg_data)
    /\ sync_data' = IF CalculateRealTimeMpg(sync_data, tank_capacity).same_object
                    THEN SetFirstFuelLevel(mpg_data)
                    ELSE sync_data
    /\ UNCHANGED << tank_capacity, rated_mpg, theft_events, raised >>
    /\ UNCHANGED syncVars
    /\ UNCHANGED qualityVars
    /\ UNCHANGED exportVars
    /\ UNCHANGED fleetVars
    /\ UNCHANGED utilVars

NextMpg == NoWindows \/ CalculateMpg \/ DetectTheft \/ ModifyResult

SpecMpg == InitMpg /\ [][NextMpg]_vars

(***************************************************************************)
(* Spec: FUEL_THEFT_DETECTION_MODULE.execute_theft_detection over a fleet. *)
(* One action is the whole loop body for the next vehicle, by the path the *)
(* vehicle's data takes through it.                                        *)
(***************************************************************************)
\* meters of a vehicle: a series is << >> when the key is missing or empty
FleetFuel ==
    {<< >>,
     << Reading(0, 80) >>,
     << Reading(0, 80), Reading(25, 40) >>,
     << Reading(0, 80), Reading(25, 80) >>}
FleetOdometer ==
    {<< >>,
     << Reading(0, 1000) >>,
     << Reading(0, 1000), Reading(25, 1004) >>}
\* a vehicle's row of vehicle_metadata, or none
FleetSpecifications ==
    {<< >>,
     << [tank_capacity |-> Int2Num(20), rated_mpg |-> Int2Num(1)] >>,
     << [tank_capacity |-> Int2Num(20), rated_mpg |-> Int2Num(10)] >>}

Vehicles ==
    [fuel : FleetFuel, odometer : FleetOdometer, speed : {<< >>},
     specification : FleetSpecifications]

\* meters.get(key, pd.DataFrame())
MetersGet(meters, key) ==
    IF key = "fuel" THEN meters.fuel
    ELSE IF key = "odometer" THEN meters.odometer
    ELSE meters.speed

\* self.vehicle_metadata[self.vehicle_metadata['id'] == vehicle_id]
VehicleSpec(metadata, vehicle_id) ==
    SelectSeq(metadata, LAMBDA row : row.id = vehicle_id)

RECURSIVE MetadataRows(_, _)
MetadataRows(fleet, i) ==
    IF i > Len(fleet) THEN << >>
    ELSE (IF fleet[i].specification = << >> THEN << >>
          ELSE << [id |-> i,
                   tank_capacity |-> fleet[i].specification[1].tank_capacity,
                   rated_mpg |-> fleet[i].specification[1].rated_mpg] >>)
         \o MetadataRows(fleet, i + 1)

Init ==
    /\ pc = "fleet_loop"
    /\ \E n \in 0..MaxVehicles : \E fleet \in [1..n -> Vehicles] :
          /\ cleaned_data = [i \in 1..n |-> [fuel |-> fleet[i].fuel,
                                            odometer |-> fleet[i].odometer,
                                            speed |-> fleet[i].speed]]
          /\ vehicle_metadata = MetadataRows(fleet, 1)
    /\ vidx = 0
    /\ fleet_theft_events = << >>
    /\ synchronized_store = << >>
    /\ theft_summary = EmptySummary
    /\ outcome = << >>
    /\ sync_data = EmptyFrame
    /\ raised = FALSE
    /\ SyncIdle
    /\ PipelineIdle
    /\ UtilIdle
    /\ RerunIdle
    /\ QualityIdle
    /\ ExportIdle

\* the vehicle the for loop takes next, and what the body reads for it
NextVehicle == vidx + 1
NextMeters == cleaned_data[NextVehicle]
NextSpec == VehicleSpec(vehicle_metadata, NextVehicle)
NextInsufficient ==
    MetersGet(NextMeters, "fuel") = << >> \/ MetersGet(NextMeters, "odometer") = << >>
NextSyncData ==
    CreateSynchronizedWindows(MetersGet(NextMeters, "fuel"),
                              MetersGet(NextMeters, "odometer"),
                              MetersGet(NextMeters, "speed"))

\* theft_summary['vehicles_analyzed'] += 1, then "continue"
Continue(how) ==
    /\ vidx' = NextVehicle
    /\ theft_summary' = [theft_summary EXCEPT !.vehicles_analyzed = @ + 1]
    /\ outcome' = Append(outcome, how)
    /\ UNCHANGED << pc, raised, cleaned_data, vehicle_metadata,
                    fleet_theft_events, synchronized_store, sync_data >>
    /\ UNCHANGED syncVars
    /\ UNCHANGED qualityVars
    /\ UNCHANGED exportVars
    /\ UNCHANGED pipelineVars
    /\ UNCHANGED utilVars
    /\ UNCHANGED << run, first_run >>

\* "if vehicle_spec.empty: ... continue"
VehicleNoSpecification ==
    /\ pc = "fleet_loop"
    /\ NextVehicle <= Len(cleaned_data)
    /\ NextSpec = << >>
    /\ Continue("no_specification")

\* "if fuel_data.empty or odometer_data.empty: ... continue"
VehicleInsufficientData ==
    /\ pc = "fleet_loop"
    /\ NextVehicle <= Len(cleaned_data)
    /\ NextSpec # << >>
    /\ NextInsufficient
    /\ Continue("insufficient_data")

\* "if sync_data.empty: ... continue"
VehicleNoWindows ==
    /\ pc = "fleet_loop"
    /\ NextVehicle <= Len(cleaned_data)
    /\ NextSpec # << >>
    /\ ~NextInsufficient
    /\ FrameEmpty(NextSyncData)
    /\ Continue("no_windows")

CountPriorityAny(events) == Len(events)

\* sum(1 for event in theft_events if event['investigation_priority'] == 1)
CountPriority1(events) ==
    Cardinality({i \in 1..Len(events) : events[i].investigation_priority = 1})

RECURSIVE SumTheftValue(_)
SumTheftValue(events) ==
    IF events = << >> THEN Int2Num(0)
    ELSE LET rest == SumTheftValue(Tail(events))
             v == Head(events).estimated_theft_value
         IN  Num(v.n * rest.d + rest.n * v.d, v.d * rest.d)

FAdd(a, b) ==
    IF IsNum(a) /\ IsNum(b) THEN Num(a.n * b.d + b.n * a.d, a.d * b.d) ELSE NaN

\* the rest of the loop body: windows stored, MPG, detection, summary
VehicleAnalyzed ==
    /\ pc = "fleet_loop"
    /\ NextVehicle <= Len(cleaned_data)
    /\ NextSpec # << >>
    /\ ~NextInsufficient
    /\ ~FrameEmpty(NextSyncData)
    /\ LET tank == NextSpec[1].tank_capacity
           rated == NextSpec[1].rated_mpg
           mpg == CalculateRealTimeMpg(NextSyncData, tank)
           det == DetectTheftEventsEnhanced(NextVehicle, mpg.frame, rated)
           fails == mpg.raised \/ det.raised
           events == det.events
       IN  /\ vidx' = NextVehicle
           /\ sync_data' = NextSyncData
           /\ synchronized_store' = (NextVehicle :> NextSyncData) @@ synchronized_store
           /\ tank_capacity' = tank
           /\ rated_mpg' = rated
           /\ mpg_data' = mpg.frame
           /\ raised' = fails
           /\ pc' = IF fails THEN "raised" ELSE "fleet_loop"
           /\ outcome' = Append(outcome, IF fails THEN "raised" ELSE "analyzed")
           /\ theft_events' = IF fails THEN << >> ELSE events
           /\ IF ~fails /\ events # << >>
              THEN /\ fleet_theft_events' = (NextVehicle :> events) @@ fleet_theft_events
                   /\ theft_summary' =
                        [vehicles_analyzed |-> theft_summary.vehicles_analyzed + 1,
                         vehicles_with_theft_events |->
                             theft_summary.vehicles_with_theft_events + 1,
                         total_theft_events |->
                             theft_summary.total_theft_events + Len(events),
                         total_estimated_loss |->
                             FAdd(theft_summary.total_estimated_loss,
                                  SumTheftValue(events)),
                         high_priority_events |->
                             theft_summary.high_priority_events + CountPriority1(events)]
              ELSE /\ fleet_theft_events' = fleet_theft_events
                   /\ theft_summary' =
                        [theft_summary EXCEPT !.vehicles_analyzed = @ + 1]
    /\ UNCHANGED << cleaned_data, vehicle_metadata >>
    /\ UNCHANGED syncVars
    /\ UNCHANGED qualityVars
    /\ UNCHANGED exportVars
    /\ UNCHANGED utilVars
    /\ UNCHANGED << run, first_run >>

\* the loop is exhausted: "return self.theft_events, theft_summary"
FleetReturn ==
    /\ pc = "fleet_loop"
    /\ vidx = Len(cleaned_data)
    /\ pc' = "returned"
    /\ UNCHANGED << sync_data, raised >>
    /\ UNCHANGED syncVars
    /\ UNCHANGED qualityVars
    /\ UNCHANGED exportVars
    /\ UNCHANGED pipelineVars
    /\ UNCHANGED fleetVars
    /\ UNCHANGED utilVars

Next ==
    \/ VehicleNoSpecification
    \/ VehicleInsufficientData
    \/ VehicleNoWindows
    \/ VehicleAnalyzed
    \/ FleetReturn

Spec == Init /\ [][Next]_vars

(***************************************************************************)
(* Properties.                                                             *)
(***************************************************************************)
RowsOf(df) == {df.rows[i] : i \in 1..Len(df.rows)}

\* C1: execute_theft_detection processes every vehicle of the fleet: no
\* vehicle's data makes the loop raise or stop before all remaining vehicles
\* have been processed, so the call returns only after taking every vehicle.
C1_EveryVehicleProcessed ==
    /\ ~raised
    /\ pc # "raised"
    /\ pc = "returned" => Len(outcome) = Len(cleaned_data)

\* C2: every window the synchronizer retains or returns has a fuel_level and
\* an odometer value, each averaged from at least one reading; speed is not
\* required.
C2_RetainedWindowsHaveFuelAndOdometer ==
    \A w \in {synchronized_windows[i] : i \in 1..Len(synchronized_windows)}
             \cup RowsOf(sync_data) :
        /\ IsNum(w.fuel_level)
        /\ IsNum(w.odometer)
        /\ w.reading_counts.fuel >= 1
        /\ w.reading_counts.odometer >= 1
        /\ (w.speed = None <=> w.reading_counts.speed = 0)

\* a returned window without speed, while another window was dropped for
\* lacking fuel although it had odometer readings
C2_Witness ==
    /\ pc = "sync_done"
    /\ \E w \in RowsOf(sync_data) : w.speed = None /\ w.reading_counts.speed = 0
    /\ \E i \in 1..Len(examined) :
          /\ examined[i].window_data.fuel_level = None
          /\ examined[i].window_data.odometer # None

\* the readings of a series with window_start <= t < window_end, by full scan
InWindow(series, window_start, window_end) ==
    SelectSeq(series, LAMBDA r : window_start <= r.TIMESTAMP /\ r.TIMESTAMP < window_end)

ScanAgrees(series, window_start, window_end, value, count) ==
    LET rs == InWindow(series, window_start, window_end)
        total == SumSeq([i \in 1..Len(rs) |-> rs[i].value])
    IN  /\ count = Len(rs)
        /\ IF rs = << >> THEN value = None
           ELSE IsNum(value) /\ value.n * Len(rs) = total * value.d

\* C3: for every window examined and each of the three series, the value and
\* the count obtained with the advancing cursors are the arithmetic mean and
\* the number of all readings with window_start <= t < window_end, as a full
\* scan of the input series computes them; a reading at exactly window_end is
\* not in this window.
C3_CursorEqualsFullScan ==
    \A i \in 1..Len(examined) :
        LET e == examined[i]
            w == e.window_data
        IN  /\ ScanAgrees(fuel_data, e.window_start, e.window_end,
                          w.fuel_level, w.reading_counts.fuel)
            /\ ScanAgrees(odometer_data, e.window_start, e.window_end,
                          w.odometer, w.reading_counts.odometer)
            /\ ScanAgrees(speed_data, e.window_start, e.window_end,
                          w.speed, w.reading_counts.speed)

\* a fuel reading at exactly the end of a window that counted fuel readings,
\* counted by the following window
C3_Witness ==
    \E i \in 1..(Len(examined) - 1) :
        /\ examined[i].window_data.reading_counts.fuel >= 1
        /\ examined[i].window_end \in Timestamps(fuel_data)
        /\ examined[i + 1].window_data.reading_counts.fuel >= 1

CeilDiv(a, b) == (a + b - 1) \div b

\* C4: the returned windows have centers min_ts + k*10 + 5 for strictly
\* increasing integers k >= 0 with min_ts + k*10 < max_ts, and there are at
\* most ceil((max_ts - min_ts)/10) of them; every window examined is 10
\* minutes wide, centered 5 minutes after its start, and starts where the
\* previous one ended.
C4_WindowGrid ==
    /\ \A i \in 1..Len(examined) :
          /\ examined[i].window_end - examined[i].window_start = 10
          /\ examined[i].window_data.timestamp = examined[i].window_start + 5
          /\ i > 1 => examined[i].window_start = examined[i - 1].window_end
    /\ (pc = "sync_done" /\ AllTimestamps(fuel_data, odometer_data, speed_data) # {}) =>
        LET ts == AllTimestamps(fuel_data, odometer_data, speed_data)
            min_ts == SetMin(ts)
            max_ts == SetMax(ts)
            rows == sync_data.rows
            offset(j) == rows[j].timestamp - 5 - min_ts
        IN  /\ \A j \in 1..Len(rows) :
                  /\ offset(j) >= 0
                  /\ offset(j) % 10 = 0
                  /\ min_ts + offset(j) < max_ts
            /\ \A j \in 1..(Len(rows) - 1) : offset(j) < offset(j + 1)
            /\ Len(rows) <= CeilDiv(max_ts - min_ts, 10)

\* two returned windows with a dropped window between them
C4_Witness ==
    /\ pc = "sync_done"
    /\ Len(sync_data.rows) >= 2
    /\ sync_data.rows[2].timestamp - sync_data.rows[1].timestamp > 10

\* calculate_real_time_mpg has returned
MpgComputed == pc \in {"mpg_returned", "detected", "detect_raised"}

\* C5: calculate_real_time_mpg produces exactly one record per consecutive
\* window pair: n - 1 records for n >= 2 windows, none for 0 or 1 windows.
C5_OneRecordPerWindowPair ==
    MpgComputed =>
        IF Len(sync_data.rows) >= 2
        THEN Len(mpg_data.rows) = Len(sync_data.rows) - 1
        ELSE mpg_data.rows = << >>

\* C6: in the records calculate_real_time_mpg computes, calculated_mpg has a
\* value exactly when fuel_gallons_consumed > 0 and is then distance_delta /
\* fuel_gallons_consumed; otherwise it is undefined (NaN, not zero) and the
\* record is flagged NO_FUEL_CONSUMPTION; the computation never raises.
C6_MpgDefinedIffFuelConsumed ==
    /\ pc # "mpg_raised"
    /\ (MpgComputed /\ "calculated_mpg" \in mpg_data.columns) =>
          \A r \in RowsOf(mpg_data) :
              LET g == r.fuel_gallons_consumed
                  m == r.calculated_mpg
                  dist == r.distance_delta
                  consumed == IsNum(g) /\ g.n > 0
              IN  /\ IsNum(m) <=> consumed
                  /\ consumed =>
                        /\ IsNum(dist)
                        /\ m.n * g.n * dist.d = dist.n * m.d * g.d
                  /\ ~consumed =>
                        /\ m = NaN
                        /\ r.mpg_validation = "NO_FUEL_CONSUMPTION"

\* the fuel level dropped but the tank capacity is 0: no gallons consumed
C6_Witness ==
    /\ pc = "mpg_returned"
    /\ "calculated_mpg" \in mpg_data.columns
    /\ tank_capacity = Int2Num(0)
    /\ \E r \in RowsOf(mpg_data) :
          /\ IsNum(r.fuel_delta) /\ r.fuel_delta.n > 0
          /\ r.fuel_gallons_consumed = Int2Num(0)
          /\ r.calculated_mpg = NaN
          /\ r.mpg_validation = "NO_FUEL_CONSUMPTION"

\* C7: the validation flag is decided in the order: calculated_mpg undefined
\* -> NO_FUEL_CONSUMPTION; else > 50 -> FUEL_SENSOR_ERROR; else < 2 ->
\* INVESTIGATE_POTENTIAL_THEFT; else NORMAL_OPERATION; both comparisons are
\* strict, so exactly 50 and exactly 2 are NORMAL_OPERATION.
C7_ValidationPriorityOrder ==
    (MpgComputed /\ "mpg_validation" \in mpg_data.columns) =>
        \A r \in RowsOf(mpg_data) :
            LET m == r.calculated_mpg
            IN  /\ r.mpg_validation =
                      IF ~IsNum(m) THEN "NO_FUEL_CONSUMPTION"
                      ELSE IF m.n > 50 * m.d THEN "FUEL_SENSOR_ERROR"
                      ELSE IF m.n < 2 * m.d THEN "INVESTIGATE_POTENTIAL_THEFT"
                      ELSE "NORMAL_OPERATION"
                /\ (m = Int2Num(50) \/ m = Int2Num(2)) =>
                      r.mpg_validation = "NORMAL_OPERATION"

\* a record whose calculated_mpg is exactly 50
C7_Witness ==
    /\ pc = "mpg_returned"
    /\ "calculated_mpg" \in mpg_data.columns
    /\ \E r \in RowsOf(mpg_data) :
          r.calculated_mpg = Int2Num(50) /\ r.mpg_validation = "NORMAL_OPERATION"

ValidationFlags ==
    {"NO_FUEL_CONSUMPTION", "FUEL_SENSOR_ERROR", "INVESTIGATE_POTENTIAL_THEFT",
     "NORMAL_OPERATION"}

\* C8: every record output by calculate_real_time_mpg carries exactly one of
\* the four validation flags.
C8_EveryRecordHasOneFlag ==
    MpgComputed =>
        \A i \in 1..Len(mpg_data.rows) :
            /\ "mpg_validation" \in mpg_data.columns
            /\ mpg_data.rows[i].mpg_validation \in ValidationFlags

\* C9: for every theft event, threat_level and investigation_priority follow
\* from efficiency_ratio (calculated_mpg / rated_mpg for a positive
\* rated_mpg): < 0.3 CRITICAL/1, < 0.5 HIGH/1, < 0.7 MEDIUM/2, else LOW/3;
\* priority is 1 exactly for CRITICAL and HIGH and always in {1,2,3}.
C9_ThreatLevelByEfficiencyRatio ==
    pc = "detected" =>
        \A j \in 1..Len(theft_events) :
            LET e == theft_events[j]
                x == e.efficiency_ratio
                m == e.calculated_mpg
            IN  /\ IsNum(x)
                /\ (rated_mpg.n > 0) => x.n * rated_mpg.n * m.d = m.n * x.d * rated_mpg.d
                /\ << e.threat_level, e.investigation_priority >> =
                      IF 10 * x.n < 3 * x.d THEN << "CRITICAL", 1 >>
                      ELSE IF 10 * x.n < 5 * x.d THEN << "HIGH", 1 >>
                      ELSE IF 10 * x.n < 7 * x.d THEN << "MEDIUM", 2 >>
                      ELSE << "LOW", 3 >>
                /\ e.investigation_priority \in {1, 2, 3}
                /\ e.investigation_priority = 1 <=>
                      e.threat_level \in {"CRITICAL", "HIGH"}

\* an event whose efficiency ratio is exactly 0.3: HIGH, priority 1
C9_Witness ==
    /\ pc = "detected"
    /\ \E j \in 1..Len(theft_events) :
          /\ theft_events[j].efficiency_ratio = Num(3, 10)
          /\ theft_events[j].threat_level = "HIGH"
          /\ theft_events[j].investigation_priority = 1

\* C10: detect_theft_events_enhanced outputs, in record order, exactly one
\* TheftEvent for each record flagged INVESTIGATE_POTENTIAL_THEFT with
\* fuel_gallons_consumed > 0 and none for any other record; each event carries
\* the record's fuel_gallons_consumed and estimated_theft_value = gallons x 5
\* (> 0); input with no qualifying record yields an empty list, not an error.
C10_OneEventPerQualifyingRecord ==
    pc \in {"detected", "detect_raised"} =>
        /\ ~raised
        /\ LET rows == mpg_data.rows
               qualifying ==
                   {i \in 1..Len(rows) :
                       /\ rows[i].mpg_validation = "INVESTIGATE_POTENTIAL_THEFT"
                       /\ IsNum(rows[i].fuel_gallons_consumed)
                       /\ rows[i].fuel_gallons_consumed.n > 0}
           IN  /\ Len(theft_events) = Cardinality(qualifying)
               /\ \A j \in 1..Len(theft_events) :
                     LET e == theft_events[j]
                         g == e.fuel_gallons_consumed
                         v == e.estimated_theft_value
                     IN  /\ e.window_index + 1 \in qualifying
                         /\ g = rows[e.window_index + 1].fuel_gallons_consumed
                         /\ v.n * g.d = 5 * g.n * v.d
                         /\ v.n > 0
               /\ \A j \in 1..(Len(theft_events) - 1) :
                     theft_events[j].window_index < theft_events[j + 1].window_index

\* what the returned pair (self.theft_events, theft_summary) holds for one
\* vehicle: its entry of the dict, if it has one
ResultFor(vehicle_id) ==
    IF vehicle_id \in DOMAIN fleet_theft_events
    THEN [present |-> TRUE, events |-> fleet_theft_events[vehicle_id]]
    ELSE [present |-> FALSE, events |-> << >>]

\* C11: a vehicle that lacks the fuel or odometer series, or whose
\* synchronization yields zero windows, is skipped without raising, and in the
\* result of the run its outcome differs from that of a vehicle that was
\* analyzed and produced zero theft events.
C11_SkippedDistinguishableFromAnalyzed ==
    /\ \A i \in 1..Len(outcome) :
          outcome[i] \in {"insufficient_data", "no_windows"} =>
              ~raised \/ Len(outcome) > i
    /\ pc = "returned" =>
          \A i, j \in 1..Len(outcome) :
              /\ outcome[i] \in {"insufficient_data", "no_windows"}
              /\ outcome[j] = "analyzed"
              /\ j \notin DOMAIN fleet_theft_events
              => ResultFor(i) # ResultFor(j)

\* a is the rational b - c
IsDifference(a, b, c) ==
    /\ IsNum(a)
    /\ a.n * b.d * c.d = (b.n * c.d - c.n * b.d) * a.d

\* C15: for each consecutive pair of synchronized windows (i-1, i) the record
\* of window i has distance_delta = odometer[i] - odometer[i-1] (negative
\* values included), fuel_delta = fuel[i-1] - fuel[i], fuel_gallons_consumed =
\* fuel_delta / 100 x tank_capacity and time_delta_hours = the difference of
\* the two timestamps in hours.
C15_DeltasOfConsecutiveWindows ==
    (pc \in {"mpg_returned", "detected"} /\ "calculated_mpg" \in mpg_data.columns) =>
        /\ Len(mpg_data.rows) = Len(sync_data.rows)
        /\ \A i \in 2..Len(sync_data.rows) :
              LET r == mpg_data.rows[i]
                  cur == sync_data.rows[i]
                  prev == sync_data.rows[i - 1]
                  g == r.fuel_gallons_consumed
                  fd == r.fuel_delta
                  h == r.time_delta_hours
              IN  /\ IsDifference(r.distance_delta, cur.odometer, prev.odometer)
                  /\ IsDifference(fd, prev.fuel_level, cur.fuel_level)
                  /\ IsNum(g)
                  /\ g.n * 100 * tank_capacity.d * fd.d = fd.n * tank_capacity.n * g.d
                  /\ IsNum(h)
                  /\ h.n * 60 = (cur.timestamp - prev.timestamp) * h.d

\* a record whose odometer went backwards while fuel dropped
C15_Witness ==
    /\ pc = "mpg_returned"
    /\ "calculated_mpg" \in mpg_data.columns
    /\ \E i \in 2..Len(mpg_data.rows) :
          /\ mpg_data.rows[i].distance_delta.n < 0
          /\ mpg_data.rows[i].fuel_delta.n > 0
          /\ mpg_data.rows[i].fuel_gallons_consumed.n > 0
          /\ mpg_data.rows[i].time_delta_hours.n > 0

\* the vehicle the fleet loop analyzed last, and its input series
LastVehicle == cleaned_data[vidx]

\* C16: a consumption record pairs a retained window with the previous
\* retained window, also across windows that were dropped: its distance and
\* fuel deltas are taken between those two windows and its time_delta_hours
\* is a positive whole multiple of 10 minutes, never zero or negative.
C16_RecordsSpanDroppedWindows ==
    "calculated_mpg" \in mpg_data.columns =>
        /\ Len(mpg_data.rows) = Len(sync_data.rows)
        /\ \A i \in 2..Len(sync_data.rows) :
              LET r == mpg_data.rows[i]
                  cur == sync_data.rows[i]
                  prev == sync_data.rows[i - 1]
                  h == r.time_delta_hours
                  minutes == cur.timestamp - prev.timestamp
              IN  /\ IsDifference(r.distance_delta, cur.odometer, prev.odometer)
                  /\ IsDifference(r.fuel_delta, prev.fuel_level, cur.fuel_level)
                  /\ IsNum(h)
                  /\ h.n * 60 = minutes * h.d
                  /\ minutes > 0
                  /\ minutes % WindowMinutes = 0

\* the window 10..20 had no reading and was dropped; the record of the window
\* 20..30 is paired with the window 0..10: 20 minutes, fuel drop 40, 4 miles
C16_Witness ==
    /\ vidx > 0
    /\ outcome[vidx] = "analyzed"
    /\ "calculated_mpg" \in mpg_data.columns
    /\ \A k \in 1..Len(LastVehicle.fuel) :
          ~(10 <= LastVehicle.fuel[k].TIMESTAMP /\ LastVehicle.fuel[k].TIMESTAMP < 20)
    /\ Len(mpg_data.rows) = 2
    /\ sync_data.rows[1].timestamp = 5
    /\ sync_data.rows[2].timestamp = 25
    /\ mpg_data.rows[2].time_delta_hours = Num(1, 3)
    /\ mpg_data.rows[2].fuel_delta = Int2Num(40)
    /\ mpg_data.rows[2].distance_delta = Int2Num(4)

\* the records the detector turns into events
Qualifying(df) ==
    {i \in 1..Len(df.rows) :
        /\ "mpg_validation" \in df.columns
        /\ df.rows[i].mpg_validation = "INVESTIGATE_POTENTIAL_THEFT"
        /\ IsNum(df.rows[i].fuel_gallons_consumed)
        /\ df.rows[i].fuel_gallons_consumed.n > 0}

\* C17: when rated_mpg <= 0, detection over a frame with a qualifying record
\* does not raise and every event has efficiency ratio 0 (the value
\* calculate_fuel_efficiency_ratio also returns), threat level CRITICAL and
\* priority 1.
C17_NonPositiveRatedMpgIsCritical ==
    (/\ pc \in {"detected", "detect_raised"}
     /\ rated_mpg.n <= 0
     /\ Qualifying(mpg_data) # {}) =>
        /\ ~raised
        /\ pc = "detected"
        /\ Len(theft_events) = Cardinality(Qualifying(mpg_data))
        /\ \A j \in 1..Len(theft_events) :
              LET e == theft_events[j]
              IN  /\ e.efficiency_ratio = Int2Num(0)
                  /\ e.efficiency_ratio =
                        CalculateFuelEfficiencyRatio(e.calculated_mpg, rated_mpg)
                  /\ e.threat_level = "CRITICAL"
                  /\ e.investigation_priority = 1

\* events of a vehicle rated 0 and of a vehicle with a negative rating, the
\* latter with a negative calculated_mpg (the quotient would be positive)
C17_Witness ==
    /\ pc = "detected"
    /\ theft_events # << >>
    /\ \/ rated_mpg.n = 0 /\ theft_events[1].calculated_mpg.n > 0
       \/ rated_mpg.n < 0 /\ theft_events[1].calculated_mpg.n < 0
    /\ theft_events[1].threat_level = "CRITICAL"

(***************************************************************************)
(* Module 4B: IdleDetector.identify_idle_periods,                          *)
(* CostCalculator.calculate_idle_costs,                                    *)
(* UtilizationMetrics.calculate_utilization_metrics and the MathUtils      *)
(* helpers for the same quantities.                                        *)
(***************************************************************************)
MaxSpeedLen == 4     \* readings in the speed series of the idle analysis

IsIdleWhenMoving(row) == row.value # 0

\* speed_sorted['is_idle'] = speed_sorted['speed'] == 0
IsIdle(row) == row.value = 0

\* (later - earlier).total_seconds() / 60 of two timestamps in whole minutes
MinutesBetween(earlier, later) == Num((later - earlier) * 60, 60)

LongEnoughInclusive(idle_duration) == ~FLt(idle_duration, Int2Num(5))

\* "if idle_duration > 5"
LongEnough(idle_duration) == FGt(idle_duration, Int2Num(5))

IdlePeriod(start, end) ==
    LET idle_duration == MinutesBetween(start, end)
    IN  [start_time |-> start,
         end_time |-> end,
         duration_minutes |-> idle_duration,
         duration_hours |-> FDiv(idle_duration, Int2Num(60))]

IdleIterationKeepingStart(st, row) ==
    IF IsIdle(row)
    THEN IF st.current_idle_start = << >>
         THEN [st EXCEPT !.current_idle_start = << row.TIMESTAMP >>]
         ELSE st
    ELSE IF st.current_idle_start # << >>
         THEN LET start == st.current_idle_start[1]
              IN  [current_idle_start |-> st.current_idle_start,
                   idle_periods |->
                       IF LongEnough(MinutesBetween(start, row.TIMESTAMP))
                       THEN Append(st.idle_periods, IdlePeriod(start, row.TIMESTAMP))
                       ELSE st.idle_periods]
         ELSE st

\* one iteration of "for idx, row in speed_sorted.iterrows()";
\* current_idle_start is << >> for None and << t >> for a timestamp
IdleIteration(st, row) ==
    IF IsIdle(row)
    THEN IF st.current_idle_start = << >>
         THEN [st EXCEPT !.current_idle_start = << row.TIMESTAMP >>]
         ELSE st
    ELSE IF st.current_idle_start # << >>
         THEN LET start == st.current_idle_start[1]
              IN  [current_idle_start |-> << >>,
                   idle_periods |->
                       IF LongEnough(MinutesBetween(start, row.TIMESTAMP))
                       THEN Append(st.idle_periods, IdlePeriod(start, row.TIMESTAMP))
                       ELSE st.idle_periods]
         ELSE st

RECURSIVE IdleLoop(_, _, _)
IdleLoop(st, sorted, i) ==
    IF i > Len(sorted) THEN st
    ELSE IdleLoop(IdleIteration(st, sorted[i]), sorted, i + 1)

CloseTrailingIdleNever(st, sorted) == st.idle_periods

\* "Handle case where data ends during idle period"
CloseTrailingIdle(st, sorted) ==
    IF st.current_idle_start # << >>
    THEN LET start == st.current_idle_start[1]
             last_timestamp == sorted[Len(sorted)].TIMESTAMP
         IN  IF LongEnough(MinutesBetween(start, last_timestamp))
             THEN Append(st.idle_periods, IdlePeriod(start, last_timestamp))
             ELSE st.idle_periods
    ELSE st.idle_periods

IdentifyIdlePeriods(speed) ==
    IF speed = << >> THEN << >>
    ELSE LET sorted == SortValues(speed)
             st == IdleLoop([current_idle_start |-> << >>, idle_periods |-> << >>],
                            sorted, 1)
         IN  CloseTrailingIdle(st, sorted)

\* sum(...) and max(...) over the duration_hours of a list of periods
RECURSIVE SumHours(_)
SumHours(periods) ==
    IF periods = << >> THEN Int2Num(0)
    ELSE FAdd(SumHours(SubSeq(periods, 1, Len(periods) - 1)),
              periods[Len(periods)].duration_hours)

MaxHours(periods) ==
    LET hours == {periods[i].duration_hours : i \in 1..Len(periods)}
    IN  CHOOSE h \in hours : \A g \in hours : ~FGt(g, h)

\* CostCalculator.calculate_idle_costs
CalculateIdleCosts(periods) ==
    IF periods = << >>
    THEN [total_idle_hours |-> Int2Num(0),
          total_idle_cost |-> Int2Num(0),
          fuel_waste_cost |-> Int2Num(0),
          operational_cost |-> Int2Num(0),
          idle_events |-> 0,
          longest_idle_hours |-> Int2Num(0),
          average_idle_duration |-> Int2Num(0)]
    ELSE LET total_idle_hours == SumHours(periods)
         IN  [total_idle_hours |-> total_idle_hours,
              total_idle_cost |-> FMul(total_idle_hours, Int2Num(34)),
              fuel_waste_cost |-> FMul(total_idle_hours, Int2Num(4)),
              operational_cost |-> FMul(total_idle_hours, Int2Num(30)),
              idle_events |-> Len(periods),
              longest_idle_hours |-> MaxHours(periods),
              average_idle_duration |->
                  FDiv(SumHours(periods), Int2Num(Len(periods))),
              cost_per_hour |-> Int2Num(34),
              idle_periods |-> periods]

\* MathUtils.calculate_idle_cost(idle_hours, cost_per_hour = 34.0)
fuel_waste_rate == 4
operational_rate == 30
DefaultCostPerHour == 34

CalculateIdleCost(idle_hours, cost_per_hour) ==
    [total_idle_hours |-> idle_hours,
     fuel_waste_cost |-> FMul(idle_hours, Int2Num(fuel_waste_rate)),
     operational_cost |-> FMul(idle_hours, Int2Num(operational_rate)),
     total_idle_cost |-> FMul(idle_hours, cost_per_hour),
     cost_per_hour |-> cost_per_hour]

\* max(0, min(100, x))
Clamp(x) ==
    LET low == IF FLt(Int2Num(100), x) THEN Int2Num(100) ELSE x
    IN  IF FGt(low, Int2Num(0)) THEN low ELSE Int2Num(0)

\* MathUtils.calculate_utilization_percentage
CalculateUtilizationPercentage(active_hours, total_hours) ==
    IF FLe(total_hours, Int2Num(0)) THEN Int2Num(0)
    ELSE Clamp(FMul(FDiv(active_hours, total_hours), Int2Num(100)))

PercentageOfUnguarded(hours, total_time_span) ==
    FMul(FDiv(hours, total_time_span), Int2Num(100))

\* (hours / total_time_span * 100) if total_time_span > 0 else 0
PercentageOf(hours, total_time_span) ==
    IF FGt(total_time_span, Int2Num(0))
    THEN FMul(FDiv(hours, total_time_span), Int2Num(100))
    ELSE Int2Num(0)

EfficiencyGradeExclusive(efficiency_score) ==
    IF FGt(efficiency_score, Int2Num(85)) THEN "EXCELLENT"
    ELSE IF FGt(efficiency_score, Int2Num(70)) THEN "GOOD"
    ELSE IF FGt(efficiency_score, Int2Num(55)) THEN "FAIR"
    ELSE "POOR"

\* the if / elif chain over efficiency_score
EfficiencyGrade(efficiency_score) ==
    IF ~FLt(efficiency_score, Int2Num(85)) THEN "EXCELLENT"
    ELSE IF ~FLt(efficiency_score, Int2Num(70)) THEN "GOOD"
    ELSE IF ~FLt(efficiency_score, Int2Num(55)) THEN "FAIR"
    ELSE "POOR"

\* UtilizationMetrics.calculate_utilization_metrics
CalculateUtilizationMetrics(speed, analysis) ==
    IF speed = << >> THEN EmptyDict
    ELSE LET sorted == SortValues(speed)
             \* (max - min).total_seconds() / 3600, timestamps in minutes
             total_time_span ==
                 Num((SetMax(Timestamps(sorted)) - SetMin(Timestamps(sorted))) * 60,
                     3600)
             total_idle_hours == analysis.total_idle_hours
             active_hours == FSub(total_time_span, total_idle_hours)
             utilization_percentage == PercentageOf(active_hours, total_time_span)
             idle_percentage == PercentageOf(total_idle_hours, total_time_span)
             efficiency_score == Clamp(utilization_percentage)
         IN  [total_time_span_hours |-> total_time_span,
              active_hours |-> active_hours,
              idle_hours |-> total_idle_hours,
              utilization_percentage |-> utilization_percentage,
              idle_percentage |-> idle_percentage,
              efficiency_score |-> efficiency_score,
              efficiency_grade |-> EfficiencyGrade(efficiency_score),
              data_span_days |-> FDiv(total_time_span, Int2Num(24))]

(***************************************************************************)
(* SpecUtil: one speed series through identify_idle_periods,               *)
(* calculate_idle_costs and calculate_utilization_metrics, as lines        *)
(* 106-118 of the utilization orchestrator call them, followed by a call   *)
(* of MathUtils.calculate_idle_cost.                                       *)
(***************************************************************************)
IdleTimes == {0, 4, 5, 15, 30, 45, 100}
IdleSpeedValues == {0, 30}
IdleHourInputs == {Int2Num(0), Num(1, 10), Int2Num(10)}
CostPerHourInputs == {Int2Num(DefaultCostPerHour), Int2Num(40)}

RECURSIVE SeqOfTimes(_)
SeqOfTimes(T) ==
    IF T = {} THEN << >>
    ELSE << SetMin(T) >> \o SeqOfTimes(T \ {SetMin(T)})

\* speed series as the ETL stage delivers them: ordered by TIMESTAMP
IdleSpeedInputs ==
    UNION {{[i \in 1..Len(ts) |-> Reading(ts[i], v[i])] :
               v \in [1..Len(ts) -> IdleSpeedValues]} :
           ts \in {SeqOfTimes(T) : T \in {S \in SUBSET IdleTimes :
                                            Cardinality(S) <= MaxSpeedLen}}}

InitUtil ==
    /\ pc = "util_call"
    /\ speed_data \in IdleSpeedInputs
    /\ fuel_data = << >> /\ odometer_data = << >>
    /\ start_time = 0 /\ end_time = 0
    /\ fuel_sorted = << >> /\ odometer_sorted = << >> /\ speed_sorted = << >>
    /\ current_time = 0
    /\ fuel_idx = 0 /\ odometer_idx = 0 /\ speed_idx = 0
    /\ window_data = None
    /\ examined = << >>
    /\ synchronized_windows = << >>
    /\ sync_data = EmptyFrame
    /\ raised = FALSE
    /\ PipelineIdle
    /\ FleetIdle
    /\ UtilIdle
    /\ RerunIdle
    /\ QualityIdle
    /\ ExportIdle

\* "if speed_data.empty: ... continue"
NoSpeedData ==
    /\ pc = "util_call"
    /\ speed_data = << >>
    /\ pc' = "util_skipped"
    /\ UNCHANGED << sync_data, raised >>
    /\ UNCHANGED syncVars
    /\ UNCHANGED qualityVars
    /\ UNCHANGED exportVars
    /\ UNCHANGED pipelineVars
    /\ UNCHANGED fleetVars
    /\ UNCHANGED utilVars

\* idle_periods = self.idle_detector.identify_idle_periods(vehicle_id, speed_data)
IdentifyIdle ==
    /\ pc = "util_call"
    /\ idle_periods' = IdentifyIdlePeriods(speed_data)
    /\ pc' = "idle_returned"
    /\ UNCHANGED << idle_analysis, utilization_metrics, idle_cost >>
    /\ UNCHANGED << sync_data, raised >>
    /\ UNCHANGED syncVars
    /\ UNCHANGED qualityVars
    /\ UNCHANGED exportVars
    /\ UNCHANGED pipelineVars
    /\ UNCHANGED fleetVars

\* idle_analysis = self.cost_calculator.calculate_idle_costs(vehicle_id, idle_periods)
IdleCosts ==
    /\ pc = "idle_returned"
    /\ idle_analysis' = CalculateIdleCosts(idle_periods)
    /\ pc' = "costs_returned"
    /\ UNCHANGED << idle_periods, utilization_metrics, idle_cost >>
    /\ UNCHANGED << sync_data, raised >>
    /\ UNCHANGED syncVars
    /\ UNCHANGED qualityVars
    /\ UNCHANGED exportVars
    /\ UNCHANGED pipelineVars
    /\ UNCHANGED fleetVars

\* utilization_metrics = self.utilization_metrics.calculate_utilization_metrics(...)
UtilizationOf ==
    /\ pc = "costs_returned"
    /\ utilization_metrics' = CalculateUtilizationMetrics(speed_data, idle_analysis)
    /\ pc' = "metrics_returned"
    /\ UNCHANGED << idle_periods, idle_analysis, idle_cost >>
    /\ UNCHANGED << sync_data, raised >>
    /\ UNCHANGED syncVars
    /\ UNCHANGED qualityVars
    /\ UNCHANGED exportVars
    /\ UNCHANGED pipelineVars
    /\ UNCHANGED fleetVars

\* MathUtils.calculate_idle_cost on the analysis' hours or on given hours
MathIdleCost ==
    /\ pc = "metrics_returned"
    /\ \E idle_hours \in IdleHourInputs \cup {idle_analysis.total_idle_hours},
          cost_per_hour \in CostPerHourInputs :
          idle_cost' = CalculateIdleCost(idle_hours, cost_per_hour)
    /\ pc' = "idle_cost_returned"
    /\ UNCHANGED << idle_periods, idle_analysis, utilization_metrics >>
    /\ UNCHANGED << sync_data, raised >>
    /\ UNCHANGED syncVars
    /\ UNCHANGED qualityVars
    /\ UNCHANGED exportVars
    /\ UNCHANGED pipelineVars
    /\ UNCHANGED fleetVars

\* SavingsProjector.calculate_savings_projections
CalculateSavingsProjections(analysis) ==
    [reduction \in {25, 50, 75} |->
        [reduction_percentage |-> reduction,
         annual_savings |-> FMul(analysis.total_idle_cost, Num(reduction, 100))]]

SummaryKeysPresent(analysis, metrics) ==
    /\ {"total_idle_hours", "total_idle_cost"} \subseteq DOMAIN analysis
    /\ {"utilization_percentage", "efficiency_grade"} \subseteq DOMAIN metrics

\* export_utilization_data: the value returned and the CSV files written;
\* a KeyError is caught by "except Exception" and turns into return False
ExportUtilizationData(analysis, metrics) ==
    IF "idle_periods" \notin DOMAIN analysis
    THEN [returned |-> FALSE, files |-> {}]
    ELSE LET periods_file ==
                 IF analysis.idle_periods # << >> THEN {"idle_periods"} ELSE {}
         IN  IF SummaryKeysPresent(analysis, metrics)
             THEN [returned |-> TRUE,
                   files |-> periods_file \cup {"utilization_summary"}]
             ELSE [returned |-> FALSE, files |-> periods_file]

\* "Store comprehensive analysis" and "Export utilization data" of the loop body
StoreAndExport ==
    /\ pc = "metrics_returned"
    /\ utilization_analysis' =
           [idle_analysis |-> idle_analysis,
            utilization_metrics |-> utilization_metrics,
            savings_projections |-> CalculateSavingsProjections(idle_analysis)]
    /\ export_result' = ExportUtilizationData(idle_analysis, utilization_metrics)
    /\ pc' = "exported"
    /\ UNCHANGED utilVars
    /\ UNCHANGED << sync_data, raised >>
    /\ UNCHANGED syncVars
    /\ UNCHANGED qualityVars
    /\ UNCHANGED pipelineVars
    /\ UNCHANGED fleetVars

NextUtil ==
    \/ NoSpeedData
    \/ IdentifyIdle
    \/ IdleCosts
    \/ UtilizationOf
    \/ MathIdleCost
    \/ StoreAndExport

SpecUtil == InitUtil /\ [][NextUtil]_vars

(***************************************************************************)
(* Properties of the idle analysis.  speed_data is ordered by TIMESTAMP;   *)
(* a run is a maximal block first..last of consecutive zero-speed readings.*)
(***************************************************************************)
IdleReturned ==
    pc \in {"idle_returned", "costs_returned", "metrics_returned", "idle_cost_returned"}

IsRun(first, last) ==
    /\ first <= last
    /\ \A k \in first..last : speed_data[k].value = 0
    /\ first = 1 \/ speed_data[first - 1].value # 0
    /\ last = Len(speed_data) \/ speed_data[last + 1].value # 0

\* the runs followed by a non-zero reading, as <<start, end>> with end the
\* timestamp of that reading, kept when longer than 5 minutes
ClosedRunsKept ==
    LET n == Len(speed_data)
        runs == {r \in (1..n) \X (1..(n - 1)) :
                    /\ IsRun(r[1], r[2])
                    /\ speed_data[r[2] + 1].TIMESTAMP - speed_data[r[1]].TIMESTAMP > 5}
    IN  {<< speed_data[r[1]].TIMESTAMP, speed_data[r[2] + 1].TIMESTAMP >> : r \in runs}

\* the start timestamp of the run still open at the end of the series
TrailingRunStart ==
    LET n == Len(speed_data)
    IN  {speed_data[first].TIMESTAMP : first \in {f \in 1..n : IsRun(f, n)}}

\* the periods reported for runs that a non-zero reading closed
ClosedPeriods ==
    SelectSeq(idle_periods,
              LAMBDA p : speed_data[Len(speed_data)].value # 0
                         \/ p.start_time \notin TrailingRunStart)

\* C12: identify_idle_periods reports exactly the maximal runs of consecutive
\* zero-speed readings, each from the run's first zero-speed timestamp to the
\* timestamp of the first following non-zero reading, and keeps a run only if
\* it lasts strictly more than 5 minutes: a run of exactly 5 minutes is
\* dropped and a dropped run is not merged into a later one.
C12_ClosedRunsLongerThanFiveMinutes ==
    (IdleReturned /\ speed_data # << >>) =>
        /\ {<< ClosedPeriods[i].start_time, ClosedPeriods[i].end_time >> :
                i \in 1..Len(ClosedPeriods)} = ClosedRunsKept
        /\ Len(ClosedPeriods) = Cardinality(ClosedRunsKept)
        /\ \A i \in 1..Len(idle_periods) :
              LET p == idle_periods[i]
              IN  /\ p.duration_minutes = Int2Num(p.end_time - p.start_time)
                  /\ p.duration_hours = Num(p.end_time - p.start_time, 60)
                  /\ p.end_time - p.start_time > 5

\* a 4-minute run (0..4) was dropped and the next run (5..15) is reported from
\* its own first zero-speed reading
C12_Witness ==
    /\ pc = "idle_returned"
    /\ Len(speed_data) = 4
    /\ speed_data[1] = Reading(0, 0)
    /\ speed_data[2] = Reading(4, 30)
    /\ speed_data[3] = Reading(5, 0)
    /\ speed_data[4] = Reading(15, 30)
    /\ Len(idle_periods) = 1
    /\ idle_periods[1].start_time = 5
    /\ idle_periods[1].end_time = 15

\* C13: when the series ends while a zero-speed run is open, the run is
\* closed at the last timestamp of the series and reported, once and as the
\* last period, if and only if it lasts strictly more than 5 minutes; when the
\* series ends with a non-zero reading nothing is added after the loop.
C13_TrailingRunClosedAtLastTimestamp ==
    (IdleReturned /\ speed_data # << >>) =>
        LET last_timestamp == speed_data[Len(speed_data)].TIMESTAMP
            trailing == {i \in 1..Len(idle_periods) :
                            idle_periods[i].start_time \in TrailingRunStart}
        IN  /\ \A start \in TrailingRunStart :
                  IF last_timestamp - start > 5
                  THEN /\ trailing = {Len(idle_periods)}
                       /\ idle_periods[Len(idle_periods)].start_time = start
                       /\ idle_periods[Len(idle_periods)].end_time = last_timestamp
                       /\ idle_periods[Len(idle_periods)].duration_minutes
                              = Int2Num(last_timestamp - start)
                  ELSE trailing = {}
            /\ TrailingRunStart = {} =>
                  \A i \in 1..Len(idle_periods) :
                      \E k \in 1..Len(speed_data) :
                          /\ speed_data[k].value # 0
                          /\ speed_data[k].TIMESTAMP = idle_periods[i].end_time

\* a closed run (0..15) and then a run still open at the end (30..100)
C13_Witness ==
    /\ pc = "idle_returned"
    /\ Len(speed_data) = 4
    /\ speed_data[3].value = 0
    /\ speed_data[4] = Reading(100, 0)
    /\ Len(idle_periods) = 2
    /\ idle_periods[2].start_time = speed_data[3].TIMESTAMP
    /\ idle_periods[2].end_time = 100

NoReadingIdle == \A k \in 1..Len(speed_data) : speed_data[k].value # 0
EveryReadingIdle ==
    speed_data # << >> /\ \A k \in 1..Len(speed_data) : speed_data[k].value = 0
FirstTimestamp == speed_data[1].TIMESTAMP
LastTimestamp == speed_data[Len(speed_data)].TIMESTAMP

SingleIntervalFirstToLast ==
    /\ Len(idle_periods) = 1
    /\ idle_periods[1].start_time = FirstTimestamp
    /\ idle_periods[1].end_time = LastTimestamp

\* C14: identify_idle_periods returns an empty list for an empty series and
\* for a series without a zero-speed reading, and a single interval from the
\* first to the last timestamp when every reading has speed 0.
C14_EdgeCasesAsStated ==
    IdleReturned =>
        /\ speed_data = << >> => idle_periods = << >>
        /\ NoReadingIdle => idle_periods = << >>
        /\ EveryReadingIdle => SingleIntervalFirstToLast

\* C14 (amended): as above, but a series whose every reading has speed 0
\* yields the single interval only when it spans strictly more than 5
\* minutes; otherwise (a single reading included) the list is empty.
C14_EdgeCasesUnderThreshold ==
    IdleReturned =>
        /\ speed_data = << >> => idle_periods = << >>
        /\ NoReadingIdle => idle_periods = << >>
        /\ EveryReadingIdle =>
              IF LastTimestamp - FirstTimestamp > 5
              THEN SingleIntervalFirstToLast
              ELSE idle_periods = << >>

\* three zero-speed readings over 15 minutes: one interval 0..15
C14_Witness ==
    /\ pc = "idle_returned"
    /\ EveryReadingIdle
    /\ Len(speed_data) = 3
    /\ FirstTimestamp = 0
    /\ LastTimestamp = 15
    /\ SingleIntervalFirstToLast

MetricsReturned ==
    pc \in {"metrics_returned", "idle_cost_returned"} /\ speed_data # << >>

IsRateTimes(x, rate, hours) ==
    IsNum(x) /\ IsNum(hours) /\ x.n * hours.d = rate * hours.n * x.d

CostBreakdownHolds(costs) ==
    LET hours == costs.total_idle_hours
        f == costs.fuel_waste_cost
        o == costs.operational_cost
        t == costs.total_idle_cost
    IN  /\ IsRateTimes(t, 34, hours)
        /\ IsRateTimes(f, 4, hours)
        /\ IsRateTimes(o, 30, hours)
        /\ (f.n * o.d + o.n * f.d) * t.d = t.n * f.d * o.d

\* C19: for every idle-hours value the breakdown satisfies total_idle_cost =
\* 34 x hours, fuel_waste_cost = 4 x hours, operational_cost = 30 x hours and
\* fuel_waste_cost + operational_cost = total_idle_cost, in every result of
\* calculate_idle_costs and of MathUtils.calculate_idle_cost, zero hours
\* included.
C19_CostBreakdown ==
    /\ pc \in {"costs_returned", "metrics_returned", "idle_cost_returned"} =>
          CostBreakdownHolds(idle_analysis)
    /\ pc = "idle_cost_returned" => CostBreakdownHolds(idle_cost)

\* score >= bound, for a rational score
AtLeast(score, bound) == score.n >= bound * score.d

\* C20: calculate_utilization_metrics assigns exactly one grade from the
\* clamped score: EXCELLENT iff score >= 85, GOOD iff 70 <= score < 85, FAIR
\* iff 55 <= score < 70, POOR iff score < 55; the values 85, 70 and 55 fall in
\* the higher grade.
C20_GradeByScore ==
    MetricsReturned =>
        LET score == utilization_metrics.efficiency_score
            grade == utilization_metrics.efficiency_grade
        IN  /\ IsNum(score)
            /\ AtLeast(score, 0)
            /\ score.n <= 100 * score.d
            /\ grade \in {"EXCELLENT", "GOOD", "FAIR", "POOR"}
            /\ grade = "EXCELLENT" <=> AtLeast(score, 85)
            /\ grade = "GOOD" <=> (AtLeast(score, 70) /\ ~AtLeast(score, 85))
            /\ grade = "FAIR" <=> (AtLeast(score, 55) /\ ~AtLeast(score, 70))
            /\ grade = "POOR" <=> ~AtLeast(score, 55)

\* 15 idle minutes out of 100: the score is exactly 85 and graded EXCELLENT
C20_Witness ==
    /\ pc = "metrics_returned"
    /\ speed_data # << >>
    /\ utilization_metrics.efficiency_score = Int2Num(85)
    /\ utilization_metrics.efficiency_grade = "EXCELLENT"

\* the number of readings of a series with timestamp < t
ReadingsBefore(series, t) ==
    Cardinality({k \in 1..Len(series) : series[k].TIMESTAMP < t})

CursorsInRange ==
    /\ fuel_idx \in 0..Len(fuel_data)
    /\ odometer_idx \in 0..Len(odometer_data)
    /\ speed_idx \in 0..Len(speed_data)
    /\ examined # << >> =>
          LET window_start == examined[Len(examined)].window_start
          IN  /\ fuel_idx = ReadingsBefore(fuel_data, window_start)
              /\ odometer_idx = ReadingsBefore(odometer_data, window_start)
              /\ speed_idx = ReadingsBefore(speed_data, window_start)

CursorsAdvance ==
    /\ fuel_idx' >= fuel_idx
    /\ odometer_idx' >= odometer_idx
    /\ speed_idx' >= speed_idx

\* C21: the cursors fuel_idx, odometer_idx and speed_idx never decrease from
\* one window to the next and never exceed the length of their series; after
\* the advance step for a window each cursor equals the number of readings of
\* its series with timestamp < window_start.
C21_CursorsMonotone == [] CursorsInRange /\ [][CursorsAdvance]_vars

\* three windows examined; the fuel cursor has moved past both fuel readings
C21_Witness ==
    /\ pc = "sync_loop"
    /\ Len(examined) = 3
    /\ Len(fuel_data) = 2
    /\ fuel_idx = 2
    /\ examined[2].window_data.reading_counts.fuel = 1
    /\ odometer_idx < Len(odometer_data)

(***************************************************************************)
(* SpecRerun: execute_theft_detection called a second time on the same     *)
(* FUEL_THEFT_DETECTION_MODULE object: self.theft_events and               *)
(* self.synchronized_data are set only in __init__ and keep what the first *)
(* call stored, theft_summary is built anew by each call.                  *)
(***************************************************************************)
MaxRerunVehicles == 1    \* vehicles in the fleet that is analyzed twice

InitRerun ==
    /\ pc = "fleet_loop"
    /\ \E n \in 0..MaxRerunVehicles : \E fleet \in [1..n -> Vehicles] :
          /\ cleaned_data = [i \in 1..n |-> [fuel |-> fleet[i].fuel,
                                            odometer |-> fleet[i].odometer,
                                            speed |-> fleet[i].speed]]
          /\ vehicle_metadata = MetadataRows(fleet, 1)
    /\ vidx = 0
    /\ fleet_theft_events = << >>
    /\ synchronized_store = << >>
    /\ theft_summary = EmptySummary
    /\ outcome = << >>
    /\ sync_data = EmptyFrame
    /\ raised = FALSE
    /\ SyncIdle
    /\ PipelineIdle
    /\ UtilIdle
    /\ RerunIdle
    /\ QualityIdle
    /\ ExportIdle

SummaryAtStartKept(previous) == previous

\* "theft_summary = {...}": a new dict of zeros at the start of each call
SummaryAtStart(previous) == EmptySummary

\* the second call starts; the attributes of the object stay as they are
SecondRun ==
    /\ pc \in {"returned", "raised"}
    /\ run = 1
    /\ run' = 2
    /\ first_run' = [pc |-> pc,
                     theft_events |-> fleet_theft_events,
                     theft_summary |-> theft_summary,
                     synchronized_data |-> synchronized_store,
                     sync_data |-> sync_data,
                     mpg_data |-> mpg_data,
                     outcome |-> outcome]
    /\ pc' = "fleet_loop"
    /\ raised' = FALSE
    /\ vidx' = 0
    /\ outcome' = << >>
    /\ theft_summary' = SummaryAtStart(theft_summary)
    /\ UNCHANGED << cleaned_data, vehicle_metadata, fleet_theft_events,
                    synchronized_store, sync_data >>
    /\ UNCHANGED syncVars
    /\ UNCHANGED qualityVars
    /\ UNCHANGED exportVars
    /\ UNCHANGED pipelineVars
    /\ UNCHANGED utilVars

NextRerun ==
    \/ VehicleNoSpecification
    \/ VehicleInsufficientData
    \/ VehicleNoWindows
    \/ VehicleAnalyzed
    \/ FleetReturn
    \/ SecondRun

SpecRerun == InitRerun /\ [][NextRerun]_vars

\* C22: a second run of the pipeline on identical input series gives the
\* same synchronized windows, calculated_mpg values, validation flags and
\* theft events, and a second execute_theft_detection on the same object
\* returns the same theft_events and summary as the first, whatever the
\* first run left behind.
C22_SecondRunSameResult ==
    (run = 2 /\ pc \in {"returned", "raised"}) =>
        /\ pc = first_run.pc
        /\ outcome = first_run.outcome
        /\ fleet_theft_events = first_run.theft_events
        /\ synchronized_store = first_run.synchronized_data
        /\ sync_data = first_run.sync_data
        /\ mpg_data = first_run.mpg_data
        /\ pc = "returned" => theft_summary = first_run.theft_summary

\* the second run has returned for a vehicle whose events the first run left
\* in self.theft_events
C22_Witness ==
    /\ run = 2
    /\ pc = "returned"
    /\ first_run.theft_events # << >>
    /\ theft_summary.total_theft_events > 0
    /\ fleet_theft_events = first_run.theft_events

\* C23: the components leave their input unchanged and return a result that
\* is independent of it: neither calculate_real_time_mpg nor a later
\* modification of the frame it returned alters the caller's sync_data, for
\* every number of windows, fewer than 2 included.
C23_InputIndependentOfResult == [][sync_data' = sync_data]_vars

(***************************************************************************)
(* Module 2: data quality inspection.  A meter is a series of rows         *)
(* [TIMESTAMP, value] or is absent from the vehicle's dict.  An analysis   *)
(* is << >> (None) or << d >> with d the dict returned.                    *)
(***************************************************************************)
MaxQualityVehicles == 2   \* vehicles handed to the quality inspection

NoAnalysis == << >>

AbsentMeter == [present |-> FALSE, rows |-> << >>]
Meter(rows) == [present |-> TRUE, rows |-> rows]

\* Series.diff() at position i >= 2
ValueDiff(sorted, i) == sorted[i].value - sorted[i - 1].value
TimeDiff(sorted, i) == sorted[i].TIMESTAMP - sorted[i - 1].TIMESTAMP

SeriesMin(sorted) == SetMin({sorted[i].value : i \in 1..Len(sorted)})
SeriesMax(sorted) == SetMax({sorted[i].value : i \in 1..Len(sorted)})

FMin(a, b) == IF FLt(b, a) THEN b ELSE a
FMax(a, b) == IF FGt(b, a) THEN b ELSE a

\* if len(speed_data) < 2
InsufficientSpeedData(speed) == Len(speed) < 2

\* valid_mask = (time_diffs > 0) & (time_diffs < 60)
ValidAccelerations(sorted) ==
    {i \in 2..Len(sorted) : TimeDiff(sorted, i) > 0 /\ TimeDiff(sorted, i) < 60}

AbsInt(x) == IF x < 0 THEN -x ELSE x

AnalyzeSpeedPatterns(vehicle_id, speed) ==
    IF InsufficientSpeedData(speed) THEN NoAnalysis
    ELSE LET sorted_speed == SortValues(speed)
             valid == ValidAccelerations(sorted_speed)
         IN  IF Cardinality(valid) = 0 THEN NoAnalysis
             ELSE << [vehicle_id |-> vehicle_id,
                      statistics |->
                          [total_readings |-> Len(speed),
                           valid_accelerations |-> Cardinality(valid)],
                      data_quality_score |->
                          FMin(Int2Num(100), Num(Cardinality(valid) * 100, Len(speed))),
                      valid_accelerations |->
                          {Num(AbsInt(ValueDiff(sorted_speed, i)), TimeDiff(sorted_speed, i)) :
                              i \in valid},
                      raw_data |-> sorted_speed] >>

InsufficientOdometerDataNever(odometer) == Len(odometer) < 1
\* if len(odometer_data) < 2
InsufficientOdometerData(odometer) == Len(odometer) < 2

AnalyzeOdometerPatterns(vehicle_id, odometer) ==
    IF InsufficientOdometerData(odometer) THEN NoAnalysis
    ELSE LET sorted_odometer == SortValues(odometer)
             zero_readings == SelectSeq(sorted_odometer, LAMBDA r : r.value = 0)
             decreases ==
                 Cardinality({i \in 2..Len(sorted_odometer) :
                                 ValueDiff(sorted_odometer, i) < 0})
             large_decreases ==
                 Cardinality({i \in 2..Len(sorted_odometer) :
                                 ValueDiff(sorted_odometer, i) < -50})
         IN  << [vehicle_id |-> vehicle_id,
                 statistics |->
                     [total_readings |-> Len(odometer),
                      min_odometer |-> SeriesMin(sorted_odometer),
                      max_odometer |-> SeriesMax(sorted_odometer),
                      total_distance |->
                          SeriesMax(sorted_odometer) - SeriesMin(sorted_odometer),
                      zero_readings |-> Len(zero_readings),
                      decreases |-> decreases,
                      large_decreases |-> large_decreases],
                 zero_readings |-> zero_readings,
                 data_quality_score |->
                     FMax(Int2Num(0),
                          FSub(Int2Num(100),
                               Num(decreases * 100 * 2, Len(sorted_odometer)))),
                 raw_data |-> sorted_odometer] >>

\* if len(fuel_data) < 2
InsufficientFuelData(fuel) == Len(fuel) < 2

AnalyzeFuelPatterns(vehicle_id, fuel) ==
    IF InsufficientFuelData(fuel) THEN NoAnalysis
    ELSE LET sorted_fuel == SortValues(fuel)
             range_violations ==
                 SelectSeq(sorted_fuel, LAMBDA r : r.value < 0 \/ r.value > 100)
             large_drops ==
                 {i \in 2..Len(sorted_fuel) : ValueDiff(sorted_fuel, i) < -20}
         IN  << [vehicle_id |-> vehicle_id,
                 statistics |->
                     [total_readings |-> Len(fuel),
                      min_fuel |-> SeriesMin(sorted_fuel),
                      max_fuel |-> SeriesMax(sorted_fuel),
                      range_violations |-> Len(range_violations),
                      large_drops |-> Cardinality(large_drops)],
                 range_violations |-> range_violations,
                 large_drops |-> [i \in large_drops |-> sorted_fuel[i]],
                 data_quality_score |->
                     FMax(Int2Num(0),
                          FSub(Int2Num(100),
                               Num(Len(range_violations) * 100 * 10, Len(sorted_fuel)))),
                 raw_data |-> sorted_fuel] >>

\* meters.get(sensor, None) is not None and len(...) > 0
HasReadings(meter) == meter.present /\ Len(meter.rows) > 0

\* the analyses of one vehicle, << >> where the analyzer is not called
SensorAnalysis(vehicle_id, meters, sensor) ==
    IF ~HasReadings(meters[sensor]) THEN NoAnalysis
    ELSE IF sensor = "speed" THEN AnalyzeSpeedPatterns(vehicle_id, meters.speed.rows)
    ELSE IF sensor = "odometer"
         THEN AnalyzeOdometerPatterns(vehicle_id, meters.odometer.rows)
    ELSE AnalyzeFuelPatterns(vehicle_id, meters.fuel.rows)

QualitySensors == {"speed", "odometer", "fuel"}

\* the sensors whose analysis is truthy: "if speed_analysis:" and the like
Analysed(vehicle_id, meters) ==
    {sensor \in QualitySensors : SensorAnalysis(vehicle_id, meters, sensor) # NoAnalysis}

CountIf(cond) == IF cond THEN 1 ELSE 0

\* one pass of the loop body of execute_quality_inspection
InspectVehicle ==
    /\ pc = "inspecting"
    /\ qidx < Len(vehicle_meter_data)
    /\ LET vehicle_id == qidx + 1
           meters == vehicle_meter_data[vehicle_id]
           analysed == Analysed(vehicle_id, meters)
           entries == [sensor \in analysed |->
                          SensorAnalysis(vehicle_id, meters, sensor)[1]]
       IN  /\ quality_issues' =
                  IF analysed = {} THEN quality_issues
                  ELSE [v \in DOMAIN quality_issues \cup {vehicle_id} |->
                           IF v = vehicle_id THEN entries ELSE quality_issues[v]]
           /\ inspection_summary' =
                  [vehicles_processed |-> inspection_summary.vehicles_processed + 1,
                   speed_analyses |->
                       inspection_summary.speed_analyses + CountIf("speed" \in analysed),
                   odometer_analyses |->
                       inspection_summary.odometer_analyses
                           + CountIf("odometer" \in analysed),
                   fuel_analyses |->
                       inspection_summary.fuel_analyses + CountIf("fuel" \in analysed),
                   quality_issues_detected |->
                       inspection_summary.quality_issues_detected
                           + CountIf(analysed # {}),
                   plots_created |->
                       inspection_summary.plots_created + Cardinality(analysed)]
    /\ qidx' = qidx + 1
    /\ UNCHANGED << pc, vehicle_meter_data, sync_data, raised >>
    /\ UNCHANGED syncVars
    /\ UNCHANGED exportVars
    /\ UNCHANGED pipelineVars
    /\ UNCHANGED fleetVars
    /\ UNCHANGED utilVars

\* the loop is exhausted: return self.quality_issues
InspectionReturn ==
    /\ pc = "inspecting"
    /\ qidx = Len(vehicle_meter_data)
    /\ pc' = "inspected"
    /\ UNCHANGED << sync_data, raised >>
    /\ UNCHANGED syncVars
    /\ UNCHANGED qualityVars
    /\ UNCHANGED exportVars
    /\ UNCHANGED pipelineVars
    /\ UNCHANGED fleetVars
    /\ UNCHANGED utilVars

SpeedMeterInputs ==
    {AbsentMeter,
     Meter(<< Reading(0, 30) >>),
     Meter(<< Reading(0, 30), Reading(10, 60) >>),
     Meter(<< Reading(0, 30), Reading(0, 40) >>)}

OdometerMeterInputs ==
    {Meter(<< >>),
     Meter(<< Reading(0, 1000) >>),
     Meter(<< Reading(0, 1000), Reading(10, 990) >>)}

FuelMeterInputs ==
    {AbsentMeter,
     Meter(<< Reading(0, 80) >>),
     Meter(<< Reading(0, 80), Reading(10, 120) >>)}

MeterInputs ==
    [speed : SpeedMeterInputs, odometer : OdometerMeterInputs, fuel : FuelMeterInputs]

RECURSIVE FleetsOf(_)
FleetsOf(n) ==
    IF n = 0 THEN {<< >>}
    ELSE {Append(fleet, meters) : fleet \in FleetsOf(n - 1), meters \in MeterInputs}

InitQuality ==
    /\ pc = "inspecting"
    /\ \E n \in 1..MaxQualityVehicles : vehicle_meter_data \in FleetsOf(n)
    /\ qidx = 0
    /\ quality_issues = EmptyDict
    /\ inspection_summary = EmptyInspectionSummary
    /\ fuel_data = << >> /\ odometer_data = << >> /\ speed_data = << >>
    /\ start_time = 0 /\ end_time = 0
    /\ fuel_sorted = << >> /\ odometer_sorted = << >> /\ speed_sorted = << >>
    /\ current_time = 0
    /\ fuel_idx = 0 /\ odometer_idx = 0 /\ speed_idx = 0
    /\ window_data = None
    /\ examined = << >>
    /\ synchronized_windows = << >>
    /\ sync_data = EmptyFrame
    /\ raised = FALSE
    /\ PipelineIdle
    /\ FleetIdle
    /\ UtilIdle
    /\ RerunIdle
    /\ ExportIdle

NextQuality == InspectVehicle \/ InspectionReturn

SpecQuality == InitQuality /\ [][NextQuality]_vars

Inspected(v) == v <= qidx

IssueRecorded(v, sensor) ==
    /\ v \in DOMAIN quality_issues
    /\ sensor \in DOMAIN quality_issues[v]

FewerThanTwoPoints(v, sensor) ==
    /\ vehicle_meter_data[v][sensor].present
    /\ Len(vehicle_meter_data[v][sensor].rows) < 2

\* C24: a quality analysis given fewer than 2 points returns None and does
\* not raise; the inspection then records no entry for that sensor of that
\* vehicle, and goes on: the other sensors of the vehicle that have two or
\* more odometer or fuel readings do get their entry, every vehicle is taken
\* (vehicles_processed counts them all) and the inspection returns.
C24_ShortSeriesSkipped ==
    /\ raised = FALSE
    /\ inspection_summary.vehicles_processed = qidx
    /\ pc = "inspected" => qidx = Len(vehicle_meter_data)
    /\ \A v \in 1..Len(vehicle_meter_data) : \A sensor \in QualitySensors :
           /\ FewerThanTwoPoints(v, sensor) =>
                  SensorAnalysis(v, vehicle_meter_data[v], sensor) = NoAnalysis
           /\ Inspected(v) /\ FewerThanTwoPoints(v, sensor) => ~IssueRecorded(v, sensor)
           /\ Inspected(v) /\ sensor \in {"odometer", "fuel"}
                  /\ Len(vehicle_meter_data[v][sensor].rows) >= 2
                  => IssueRecorded(v, sensor)

\* a vehicle with one speed reading and two fuel readings, then a second
\* vehicle with two odometer readings: the inspection has returned
C24_Witness ==
    /\ pc = "inspected"
    /\ Len(vehicle_meter_data) = 2
    /\ Len(vehicle_meter_data[1].speed.rows) = 1
    /\ Len(vehicle_meter_data[1].odometer.rows) = 1
    /\ ~IssueRecorded(1, "speed")
    /\ IssueRecorded(1, "fuel")
    /\ IssueRecorded(2, "odometer")

SortedSeries(sensor) ==
    IF sensor = "fuel" THEN fuel_sorted
    ELSE IF sensor = "odometer" THEN odometer_sorted
    ELSE speed_sorted

SyncSensors == {"fuel", "odometer", "speed"}

CursorOf(e, sensor) ==
    IF sensor = "fuel" THEN e.fuel_idx
    ELSE IF sensor = "odometer" THEN e.odometer_idx
    ELSE e.speed_idx

\* the positions of the sorted series whose readings window e counted
CountedIn(e, sensor) ==
    (CursorOf(e, sensor) + 1)..(CursorOf(e, sensor) + e.window_data.reading_counts[sensor])

WindowsCounting(sensor, p) ==
    {i \in 1..Len(examined) : p \in CountedIn(examined[i], sensor)}

\* min_ts + 10min x ceil((max_ts - min_ts)/10min)
CoveredUntil == start_time + WindowMinutes * CeilDiv(end_time - start_time, WindowMinutes)

\* C25: over all windows examined (returned or dropped) no reading is counted
\* in more than one window; once the synchronizer is done a reading is counted
\* in some window iff its timestamp is earlier than
\* min_ts + 10min x ceil((max_ts - min_ts)/10min), so a reading at max_ts is
\* counted nowhere when max_ts - min_ts is a whole multiple of 10 minutes, and
\* no window is produced when all readings share one timestamp.
C25_ReadingsCountedOnceUntilCover ==
    /\ \A sensor \in SyncSensors : \A p \in 1..Len(SortedSeries(sensor)) :
           Cardinality(WindowsCounting(sensor, p)) <= 1
    /\ pc = "sync_done" /\ AllTimestamps(fuel_data, odometer_data, speed_data) # {} =>
           /\ \A sensor \in SyncSensors : \A p \in 1..Len(SortedSeries(sensor)) :
                  /\ WindowsCounting(sensor, p) # {}
                         <=> SortedSeries(sensor)[p].TIMESTAMP < CoveredUntil
                  /\ (end_time - start_time) % WindowMinutes = 0
                         /\ SortedSeries(sensor)[p].TIMESTAMP = end_time
                         => WindowsCounting(sensor, p) = {}
           /\ end_time = start_time =>
                  examined = << >> /\ sync_data = EmptyFrame

\* the span is a whole multiple of 10 minutes: the first fuel reading is
\* counted, the fuel reading at max_ts is not
C25_Witness ==
    /\ pc = "sync_done"
    /\ end_time > start_time
    /\ (end_time - start_time) % WindowMinutes = 0
    /\ Len(fuel_sorted) = 2
    /\ fuel_sorted[2].TIMESTAMP = end_time
    /\ WindowsCounting("fuel", 1) # {}
    /\ WindowsCounting("fuel", 2) = {}

\* the records with positive fuel consumption and distance_delta <= 0
ConsumedWithoutDistance(df) ==
    {i \in 1..Len(df.rows) :
        /\ "distance_delta" \in df.columns
        /\ IsNum(df.rows[i].fuel_gallons_consumed)
        /\ df.rows[i].fuel_gallons_consumed.n > 0
        /\ IsNum(df.rows[i].distance_delta)
        /\ df.rows[i].distance_delta.n <= 0}

\* C26: a record with positive fuel consumption and distance_delta <= 0 has
\* calculated_mpg <= 0 and the flag INVESTIGATE_POTENTIAL_THEFT, and for every
\* rated_mpg the detector returns a TheftEvent for it with threat level
\* CRITICAL and priority 1.
C26_ConsumptionWithoutDistanceIsCritical ==
    MpgComputed =>
        \A i \in ConsumedWithoutDistance(mpg_data) :
            LET row == mpg_data.rows[i]
            IN  /\ IsNum(row.calculated_mpg)
                /\ row.calculated_mpg.n <= 0
                /\ row.mpg_validation = "INVESTIGATE_POTENTIAL_THEFT"
                /\ pc \in {"detected", "detect_raised"} =>
                      /\ pc = "detected"
                      /\ ~raised
                      /\ \E j \in 1..Len(theft_events) :
                            /\ theft_events[j].window_index = i - 1
                            /\ theft_events[j].timestamp = row.timestamp
                            /\ theft_events[j].threat_level = "CRITICAL"
                            /\ theft_events[j].investigation_priority = 1

\* a fuel drop over a decreasing odometer for a vehicle rated 10 mpg, and the
\* detector has returned
C26_Witness ==
    /\ pc = "detected"
    /\ rated_mpg = Int2Num(10)
    /\ \E i \in ConsumedWithoutDistance(mpg_data) :
          /\ mpg_data.rows[i].distance_delta.n < 0
          /\ mpg_data.rows[i].calculated_mpg.n < 0
    /\ Len(theft_events) = 1

\* C29: theft events come only from records with calculated_mpg < 2, so
\* every event of a vehicle rated 7 mpg or more has efficiency_ratio < 0.3,
\* threat level CRITICAL and priority 1, and an event that is MEDIUM or LOW
\* (priority 2 or 3) belongs to a vehicle with 0 < rated_mpg < 4.
C29_ThreatLevelBoundedByRating ==
    pc = "detected" =>
        \A j \in 1..Len(theft_events) :
            LET e == theft_events[j]
            IN  /\ FLt(e.calculated_mpg, Int2Num(TheftInvestigationMpg))
                /\ FLe(Int2Num(7), rated_mpg) =>
                      /\ FLt(e.efficiency_ratio, Num(3, 10))
                      /\ e.threat_level = "CRITICAL"
                      /\ e.investigation_priority = 1
                /\ e.threat_level \in {"MEDIUM", "LOW"} <=> e.investigation_priority \in {2, 3}
                /\ e.threat_level \in {"MEDIUM", "LOW"} =>
                      /\ FGt(rated_mpg, Int2Num(0))
                      /\ FLt(rated_mpg, Int2Num(4))

\* a vehicle rated 7 mpg with an event whose calculated_mpg is above 1
C29_Witness ==
    /\ pc = "detected"
    /\ rated_mpg = Int2Num(7)
    /\ \E j \in 1..Len(theft_events) :
          /\ FGt(theft_events[j].calculated_mpg, Int2Num(1))
          /\ theft_events[j].threat_level = "CRITICAL"

ZeroSpeedAt(t) ==
    \E i \in 1..Len(speed_data) :
        speed_data[i].TIMESTAMP = t /\ speed_data[i].value = 0

\* C27: the idle periods returned for one speed series are in chronological
\* order and do not overlap (each starts no earlier than the previous one
\* ends), each has start < end, both timestamps of the series, the start
\* being a zero-speed reading, and their durations sum to no more than
\* (last timestamp - first timestamp).
C27_IdlePeriodsOrderedAndDisjoint ==
    IdleReturned =>
        /\ \A j \in 1..Len(idle_periods) :
              LET p == idle_periods[j]
              IN  /\ p.start_time < p.end_time
                  /\ p.start_time \in Timestamps(speed_data)
                  /\ p.end_time \in Timestamps(speed_data)
                  /\ ZeroSpeedAt(p.start_time)
                  /\ p.duration_minutes = MinutesBetween(p.start_time, p.end_time)
                  /\ j > 1 => p.start_time >= idle_periods[j - 1].end_time
        /\ speed_data # << >> =>
              FLe(SumHours(idle_periods),
                  FDiv(MinutesBetween(FirstTimestamp, LastTimestamp), Int2Num(60)))
        /\ speed_data = << >> => idle_periods = << >>

\* two idle periods out of one series
C27_Witness ==
    /\ pc = "idle_returned"
    /\ Len(idle_periods) = 2
    /\ idle_periods[1].end_time < idle_periods[2].start_time

\* the events stored in self.theft_events for the vehicles 1..n, in one list
RECURSIVE StoredEvents(_)
StoredEvents(n) ==
    IF n = 0 THEN << >>
    ELSE StoredEvents(n - 1)
         \o (IF n \in DOMAIN fleet_theft_events THEN fleet_theft_events[n] ELSE << >>)

AllStoredEvents == StoredEvents(Len(cleaned_data))

RECURSIVE TotalValue(_)
TotalValue(events) ==
    IF events = << >> THEN Int2Num(0)
    ELSE FAdd(TotalValue(SubSeq(events, 1, Len(events) - 1)),
              events[Len(events)].estimated_theft_value)

\* C28: when execute_theft_detection completes, the summary agrees with the
\* stored events: vehicles_with_theft_events is the number of vehicles keyed
\* in theft_events (each with a non-empty list), total_theft_events the number
\* of stored events, high_priority_events the number of stored events with
\* priority 1 (at most total_theft_events), total_estimated_loss the sum of
\* their estimated_theft_value, and vehicles_with_theft_events is at most
\* vehicles_analyzed, the number of vehicles iterated, skipped ones included.
C28_SummaryAgreesWithStoredEvents ==
    pc = "returned" =>
        /\ DOMAIN fleet_theft_events \subseteq 1..Len(cleaned_data)
        /\ \A v \in DOMAIN fleet_theft_events : fleet_theft_events[v] # << >>
        /\ theft_summary.vehicles_with_theft_events =
               Cardinality(DOMAIN fleet_theft_events)
        /\ theft_summary.total_theft_events = Len(AllStoredEvents)
        /\ theft_summary.high_priority_events =
               Cardinality({j \in 1..Len(AllStoredEvents) :
                               AllStoredEvents[j].investigation_priority = 1})
        /\ theft_summary.high_priority_events <= theft_summary.total_theft_events
        /\ theft_summary.total_estimated_loss = TotalValue(AllStoredEvents)
        /\ theft_summary.vehicles_with_theft_events <= theft_summary.vehicles_analyzed
        /\ theft_summary.vehicles_analyzed = Len(cleaned_data)
        /\ Len(outcome) = Len(cleaned_data)

\* two vehicles, one skipped and one with a stored event of priority 2
C28_Witness ==
    /\ pc = "returned"
    /\ Len(cleaned_data) = 2
    /\ \E v \in 1..2 : outcome[v] # "analyzed"
    /\ theft_summary.vehicles_with_theft_events = 1
    /\ theft_summary.total_theft_events = 1
    /\ theft_summary.high_priority_events = 0
    /\ FGt(theft_summary.total_estimated_loss, Int2Num(0))

\* the fields of the record calculate_idle_costs returns for a non-empty list
IdleAnalysisFields ==
    {"total_idle_hours", "total_idle_cost", "fuel_waste_cost", "operational_cost",
     "idle_events", "longest_idle_hours", "average_idle_duration",
     "cost_per_hour", "idle_periods"}

\* C30: calculate_idle_costs returns the same set of fields (idle_periods and
\* cost_per_hour among them) for an empty idle-period list as for a non-empty
\* one, so for a vehicle with speed data but no idle period longer than 5
\* minutes export_utilization_data succeeds and writes the utilization
\* summary, and the vehicle's analysis is stored.
C30_EmptyIdleListExported ==
    /\ pc \in {"costs_returned", "metrics_returned", "exported"} =>
           DOMAIN idle_analysis = IdleAnalysisFields
    /\ pc = "exported" /\ speed_data # << >> =>
           /\ utilization_analysis.idle_analysis = idle_analysis
           /\ export_result.returned
           /\ "utilization_summary" \in export_result.files

====
